---- MODULE Spec2Model ----
(***************************************************************************)
(* Stair-Stringer: the layout solver (calcStairs), the materials estimator *)
(* (calcMaterials), the 3D geometry builder (buildStaircaseGeometry), the  *)
(* units parser and formatter (parseInches, toFraction), the 3D view with  *)
(* its perspective calibrator, the scene's render loop, the 2D view, the   *)
(* image store (saveImage), the 3D view from mount to unmount, the side    *)
(* elevation (drawSideElevation), the page's result, the feet-and-inches   *)
(* writer (toFeetInches) and the saving and loading of jobs. Each has its  *)
(* own specification over the variables it owns; the other variables rest  *)
(* at their idle values.                                                   *)
(*                                                                         *)
(* A JavaScript number is modelled as an exact extended rational           *)
(* [n |-> numerator, d |-> denominator] in lowest terms with d >= 0:       *)
(* d = 0 holds the three non-finite values, 1/0 = Infinity,                *)
(* -1/0 = -Infinity and 0/0 = NaN, with the IEEE-754 rules for them.       *)
(* Finite results are exact (no binary rounding) and -0 is not             *)
(* distinguished from 0.                                                   *)
(***************************************************************************)
EXTENDS Integers, Sequences, FiniteSets, TLC

VARIABLES input, out, m, mat, geometry,
          value, rendered,
          text, parsed,
          backgroundImage, isLoading, error, showCalibration, calibrationData,
          scene, builtAfter, points, currentStep, floorY, alert, clickLog,
          session,
          animationId, scheduled, requests, animateCalls, disposed,
          resizeListening, rendererSize, ranAfterDispose,
          viewType, raster, consoleErrors, lastDraw,
          store, clock, calls, overlapped,
          phase, woodType, sceneRef, scenes, initScenes, effectRuns,
          elevationData, drawing,
          fields, result, activeRenderView, rendering, uploadedImage, loadJobs,
          completed, jobs, imageStore

\* The variables of the stair pipeline and of the formatter.
stairVars == <<input, out, m, mat, geometry>>

formatVars == <<value, rendered>>

parseVars == <<text, parsed>>

\* The 3D view with its calibrator: the view's props and state, the scene it
\* holds, the calibrator's state, and the history kept for the properties
\* (builtAfter, clickLog and session).
viewVars ==
    <<backgroundImage, isLoading, error, showCalibration, calibrationData,
      scene, builtAfter, points, currentStep, floorY, alert, clickLog, session>>

\* One scene: its render loop (the last request's id, the callbacks the
\* browser holds, how many were requested), its resize listener, and the
\* history kept for the properties (animateCalls, ranAfterDispose).
sceneVars ==
    <<animationId, scheduled, requests, animateCalls, disposed,
      resizeListening, rendererSize, ranAfterDispose>>

\* The 2D view: the view drawn, the canvas, the console, and the last draw
\* (history).
canvasVars == <<viewType, raster, consoleErrors, lastDraw>>

\* The image store: the records, the clock, the saveImage calls with their
\* positions, and whether two calls ever overlapped (history).
storeVars == <<store, clock, calls, overlapped>>

\* The 3D view from mount to unmount, beside its props and state above:
\* where it is in its life, the wood type selected, the scene its ref holds
\* (0 for null), every scene created so far with what became of it
\* (history), the initScene calls waiting for their image, and how often the
\* effect has run.
mountVars == <<phase, woodType, sceneRef, scenes, initScenes, effectRuns>>

\* The side elevation: the layout drawn and what the routine put on the canvas.
elevationVars == <<elevationData, drawing>>

\* The page: its input fields (one record of the texts and flags entered),
\* the result worked out from them, the view chosen and what became of
\* rendering it, the photo uploaded, the loadJob calls waiting for their
\* image, the jobs whose load has completed, in order (history), the jobs
\* saved, and the images in the image store.
pageVars ==
    <<fields, result, activeRenderView, rendering, uploadedImage, loadJobs,
      completed, jobs, imageStore>>

vars ==
    <<stairVars, formatVars, parseVars, viewVars, sceneVars, canvasVars,
      storeVars, mountVars, elevationVars, pageVars>>

\* What the stair pipeline leaves alone, what the formatter leaves alone, and
\* so on.
notStair ==
    <<formatVars, parseVars, viewVars, sceneVars, canvasVars, storeVars,
      mountVars, elevationVars, pageVars>>

notFormat ==
    <<stairVars, parseVars, viewVars, sceneVars, canvasVars, storeVars,
      mountVars, elevationVars, pageVars>>

notParse ==
    <<stairVars, formatVars, viewVars, sceneVars, canvasVars, storeVars,
      mountVars, elevationVars, pageVars>>

notView ==
    <<stairVars, formatVars, parseVars, sceneVars, canvasVars, storeVars,
      mountVars, elevationVars, pageVars>>

notScene ==
    <<stairVars, formatVars, parseVars, viewVars, canvasVars, storeVars,
      mountVars, elevationVars, pageVars>>

notCanvas ==
    <<stairVars, formatVars, parseVars, viewVars, sceneVars, storeVars,
      mountVars, elevationVars, pageVars>>

notStore ==
    <<stairVars, formatVars, parseVars, viewVars, sceneVars, canvasVars,
      mountVars, elevationVars, pageVars>>

\* What the view's life leaves alone: the other components, and the
\* calibrator with the history of its sessions.
notMount ==
    <<stairVars, formatVars, parseVars, sceneVars, canvasVars, storeVars,
      elevationVars, pageVars>>

notElevation ==
    <<stairVars, formatVars, parseVars, viewVars, sceneVars, canvasVars,
      storeVars, mountVars, pageVars>>

notPage ==
    <<stairVars, formatVars, parseVars, viewVars, sceneVars, canvasVars,
      storeVars, mountVars, elevationVars>>

calibratorVars ==
    <<showCalibration, scene, builtAfter, points, currentStep, floorY, alert,
      clickLog, session>>

(***************************************************************************)
(* Numbers                                                                 *)
(***************************************************************************)
Abs(i) == IF i < 0 THEN 0 - i ELSE i

Sign(i) == IF i < 0 THEN 0 - 1 ELSE IF i > 0 THEN 1 ELSE 0

RECURSIVE Gcd(_, _)
Gcd(a, b) == IF b = 0 THEN a ELSE Gcd(b, a % b)

\* The number n/d, in lowest terms, the sign carried by the numerator.
Num(n, d) ==
    IF d = 0 THEN [n |-> Sign(n), d |-> 0]
    ELSE LET nn == Sign(d) * n
             dd == Abs(d)
             g  == Gcd(Abs(nn), dd)
         IN  [n |-> nn \div g, d |-> dd \div g]

Whole(i) == [n |-> i, d |-> 1]

NaN == [n |-> 0, d |-> 0]

Infinity == [n |-> 1, d |-> 0]

Undefined == [undefined |-> TRUE]

IsNaN(x) == x.d = 0 /\ x.n = 0

IsInteger(x) == x.d = 1

Neg(a) == [n |-> 0 - a.n, d |-> a.d]

Add(a, b) ==
    IF IsNaN(a) \/ IsNaN(b) THEN NaN
    ELSE IF a.d = 0 /\ b.d = 0 THEN (IF a.n = b.n THEN a ELSE NaN)
    ELSE IF a.d = 0 THEN a
    ELSE IF b.d = 0 THEN b
    ELSE Num(a.n * b.d + b.n * a.d, a.d * b.d)

Sub(a, b) == Add(a, Neg(b))

Mul(a, b) == Num(a.n * b.n, a.d * b.d)

\* 1/b: 1/0 is Infinity, 1/Infinity and 1/-Infinity are 0.
Inv(b) ==
    IF b.d = 0 THEN (IF IsNaN(b) THEN NaN ELSE Whole(0))
    ELSE IF b.n = 0 THEN Infinity
    ELSE Num(Sign(b.n) * b.d, Abs(b.n))

Div(a, b) == Mul(a, Inv(b))

\* a < b and a <= b; every comparison with NaN is false.
Lt(a, b) ==
    IF IsNaN(a) \/ IsNaN(b) THEN FALSE
    ELSE IF a.d = 0 /\ b.d = 0 THEN a.n < b.n
    ELSE a.n * b.d < b.n * a.d

Le(a, b) ==
    IF IsNaN(a) \/ IsNaN(b) THEN FALSE
    ELSE IF a.d = 0 /\ b.d = 0 THEN a.n <= b.n
    ELSE a.n * b.d <= b.n * a.d

Gt(a, b) == Lt(b, a)

Ge(a, b) == Le(b, a)

\* a === b on numbers: NaN equals nothing.
NumEq(a, b) == ~IsNaN(a) /\ a = b

\* Math.round: the nearest integer, a tie going up; Math.ceil; Math.max.
MathRound(x) == IF x.d = 0 THEN x ELSE Whole((2 * x.n + x.d) \div (2 * x.d))

MathCeil(x) == IF x.d = 0 THEN x ELSE Whole(0 - ((0 - x.n) \div x.d))

MathMax(a, b) ==
    IF IsNaN(a) \/ IsNaN(b) THEN NaN ELSE IF Lt(a, b) THEN b ELSE a

\* v ?? dflt
Nullish(v, dflt) == IF v = Undefined THEN dflt ELSE v

\* What a call produced: a value, or an exception with its message.
Returned(v) == [kind |-> "return", value |-> v]

Thrown(msg) == [kind |-> "throw", message |-> msg]

None == [kind |-> "none"]

(***************************************************************************)
(* Layout solver                                                           *)
(***************************************************************************)
STRINGER_ACTUAL_DEPTH_IN == Num(1125, 100)

MIN_MEAT_IN == Num(35, 10)

RISER_WARNING == "Riser over 7.75\" (may fail code depending on jurisdiction)."

TREAD_WARNING == "Tread run under 10\" (may fail code depending on jurisdiction)."

\* The source's message has an em dash where this one has " - ".
MEAT_WARNING ==
    "2x12 meat FAIL - redesign needed (bigger stock/LVL or adjust rise/run)."

\* RiserCount with Math.ceil in place of Math.round.
RiserCountCeil(raw) ==
    LET rounded == MathCeil(raw)
    IN  IF Lt(rounded, Whole(2)) THEN Whole(2) ELSE rounded

\* numRisers: Math.round(raw), raised to 2.
RiserCount(raw) ==
    LET rounded == MathRound(raw)
    IN  IF Lt(rounded, Whole(2)) THEN Whole(2) ELSE rounded

\* ExactRiser dividing by the number of treads.
ExactRiserPerTread(totalRiseIn, numRisers) ==
    Div(totalRiseIn, Sub(numRisers, Whole(1)))

ExactRiser(totalRiseIn, numRisers) == Div(totalRiseIn, numRisers)

\* TotalRun counting a tread per riser.
TotalRunPerRiser(numTreads, treadRunIn) ==
    Mul(Add(numTreads, Whole(1)), treadRunIn)

TotalRun(numTreads, treadRunIn) == Mul(numTreads, treadRunIn)

RemainingMeat(exactRiserIn, treadRunIn) ==
    Sub(Sub(STRINGER_ACTUAL_DEPTH_IN, exactRiserIn), treadRunIn)

\* MeatPass with a strict comparison.
MeatPassStrict(remainingMeatIn) == Gt(remainingMeatIn, MIN_MEAT_IN)

MeatPass(remainingMeatIn) == Ge(remainingMeatIn, MIN_MEAT_IN)

\* Warnings with the tread warning pushed before the riser warning.
WarningsTreadFirst(exactRiserIn, treadRunIn, meatPass) ==
    (IF Lt(treadRunIn, Whole(10)) THEN <<TREAD_WARNING>> ELSE <<>>)
    \o (IF Gt(exactRiserIn, Num(775, 100)) THEN <<RISER_WARNING>> ELSE <<>>)
    \o (IF ~meatPass THEN <<MEAT_WARNING>> ELSE <<>>)

\* The three soft warnings, pushed in this order.
Warnings(exactRiserIn, treadRunIn, meatPass) ==
    (IF Gt(exactRiserIn, Num(775, 100)) THEN <<RISER_WARNING>> ELSE <<>>)
    \o (IF Lt(treadRunIn, Whole(10)) THEN <<TREAD_WARNING>> ELSE <<>>)
    \o (IF ~meatPass THEN <<MEAT_WARNING>> ELSE <<>>)

\* InputError without the tread-run check.
InputErrorRiseOnly(totalRiseIn, treadRunIn) ==
    IF ~Gt(totalRiseIn, Whole(0)) THEN "Total rise must be > 0" ELSE ""

\* The two input checks: the message thrown, or "" when the input passes.
InputError(totalRiseIn, treadRunIn) ==
    IF ~Gt(totalRiseIn, Whole(0)) THEN "Total rise must be > 0"
    ELSE IF ~Gt(treadRunIn, Whole(0)) THEN "Tread run must be > 0"
    ELSE ""

\* FinishAdjust applied whatever finishMode is.
FinishAdjustAlways(exactRiserIn, finishMode, top, bottom) ==
    [firstRiserIn |-> Add(exactRiserIn, bottom),
     lastRiserIn  |-> Sub(exactRiserIn, top)]

\* The finish adjustments: the first and the last riser as cut.
FinishAdjust(exactRiserIn, finishMode, top, bottom) ==
    IF finishMode
    THEN [firstRiserIn |-> Add(exactRiserIn, bottom),
          lastRiserIn  |-> Sub(exactRiserIn, top)]
    ELSE [firstRiserIn |-> exactRiserIn,
          lastRiserIn  |-> exactRiserIn]

\* angleDeg = atan(angleTan) * 180/pi and stringerLenIn = sqrt(stringerLenSq):
\* the two irrational outputs are held by the exact rational they are taken of.
calcStairs(in) ==
    LET totalRiseIn   == in.totalRiseIn
        treadRunIn    == Nullish(in.treadRunIn, Whole(10))
        targetRiserIn == Nullish(in.targetRiserIn, Num(725, 100))
        raw           == Div(totalRiseIn, targetRiserIn)
        numRisers     == RiserCount(raw)
        exactRiserIn  == ExactRiser(totalRiseIn, numRisers)
        numTreads     == Sub(numRisers, Whole(1))
        totalRunIn    == TotalRun(numTreads, treadRunIn)
        top           == Nullish(in.topFinishIn, Whole(0))
        bottom        == Nullish(in.bottomFinishIn, Whole(0))
        finish        == FinishAdjust(exactRiserIn, in.finishMode, top, bottom)
        remainingMeatIn == RemainingMeat(exactRiserIn, treadRunIn)
        meatPass      == MeatPass(remainingMeatIn)
    IN  IF InputError(totalRiseIn, treadRunIn) # ""
        THEN Thrown(InputError(totalRiseIn, treadRunIn))
        ELSE Returned(
               [numRisers       |-> numRisers,
                numTreads       |-> numTreads,
                exactRiserIn    |-> exactRiserIn,
                treadRunIn      |-> treadRunIn,
                totalRunIn      |-> totalRunIn,
                angleTan        |-> Div(exactRiserIn, treadRunIn),
                stringerLenSq   |-> Add(Mul(totalRiseIn, totalRiseIn),
                                        Mul(totalRunIn, totalRunIn)),
                firstRiserIn    |-> finish.firstRiserIn,
                lastRiserIn     |-> finish.lastRiserIn,
                remainingMeatIn |-> remainingMeatIn,
                meatPass        |-> meatPass,
                warnings        |-> Warnings(exactRiserIn, treadRunIn, meatPass)])

(***************************************************************************)
(* Materials estimator                                                     *)
(***************************************************************************)
COMMON_STOCK_FT == <<8, 10, 12, 14, 16, 18, 20>>

\* ceil(width/OC) + 1, at least 2, and at least 3 up to 36" of width.
StringerCount(stairWidthIn, stringerOcin) ==
    LET conservative == Add(MathCeil(Div(stairWidthIn, stringerOcin)), Whole(1))
        atLeastTwo   == IF Lt(conservative, Whole(2)) THEN Whole(2)
                        ELSE conservative
    IN  IF Le(stairWidthIn, Whole(36))
        THEN MathMax(atLeastTwo, Whole(3))
        ELSE atLeastTwo

\* COMMON_STOCK_FT.find((ft) => ft >= neededFt) ?? Math.ceil(neededFt):
\* the first catalog entry from position i on that is long enough.
RECURSIVE FindStock(_, _)
FindStock(neededFt, i) ==
    IF i > Len(COMMON_STOCK_FT) THEN Undefined
    ELSE IF Ge(Whole(COMMON_STOCK_FT[i]), neededFt) THEN Whole(COMMON_STOCK_FT[i])
    ELSE FindStock(neededFt, i + 1)

\* SuggestedStock with Math.floor in place of Math.ceil.
SuggestedStockFloor(stringerLenIn) ==
    LET neededFt == Div(stringerLenIn, Whole(12))
    IN  Nullish(FindStock(neededFt, 1), Neg(MathCeil(Neg(neededFt))))

SuggestedStock(stringerLenIn) ==
    LET neededFt == Div(stringerLenIn, Whole(12))
    IN  Nullish(FindStock(neededFt, 1), MathCeil(neededFt))

RisersQty(closedStair, numRisers) == IF closedStair THEN numRisers ELSE Whole(0)

calcMaterials(mi) ==
    LET suggestedStockLenFt == SuggestedStock(mi.stringerLenIn)
    IN  [numStringers        |-> StringerCount(mi.stairWidthIn, mi.stringerOcin),
         suggestedStockLenFt |-> suggestedStockLenFt,
         treadsQty           |-> mi.numTreads,
         risersQty           |-> RisersQty(mi.closedStair, mi.numRisers),
         notes               |->
            (IF Ge(suggestedStockLenFt, Whole(18))
             THEN <<"Long stock: consider LVL or splicing plan.">> ELSE <<>>)
            \o <<"Blocking/bridging as required (especially mid-span).",
                 "Check local code for max riser/min tread + guard/handrail requirements.">>]

(***************************************************************************)
(* 3D geometry builder.  X = width, Y = rise, Z = run.                     *)
(***************************************************************************)
TREAD_THICKNESS == Whole(1)

Vector3(x, y, z) == [x |-> x, y |-> y, z |-> z]

\* How often the body of "for (let i = 0; i < bound; i++)" runs, for a bound
\* that is finite or NaN (i < NaN is false at once).
LoopCount(bound) ==
    IF IsNaN(bound) \/ Le(bound, Whole(0)) THEN 0 ELSE MathCeil(bound).n

\* A loop bounded by Infinity never ends: the call does not return.
Diverges == [kind |-> "diverges"]

\* One stringer's notched path at xPos: the bottom, two points per step,
\* the top landing.
StringerPath(xPos, stairData) ==
    LET exactRiserIn == stairData.exactRiserIn
        treadRunIn   == stairData.treadRunIn
        notch(step) ==
            LET riseY == Mul(Whole(step + 1), exactRiserIn)
                runZ  == Mul(Whole(step + 1), treadRunIn)
            IN  <<Vector3(xPos, riseY, Sub(runZ, treadRunIn)),
                  Vector3(xPos, riseY, runZ)>>
        totalRise == Mul(stairData.numRisers, exactRiserIn)
    IN  <<Vector3(xPos, Whole(0), Whole(0))>>
        \o [j \in 1..(2 * LoopCount(stairData.numTreads)) |->
               notch((j - 1) \div 2)[((j - 1) % 2) + 1]]
        \o <<Vector3(xPos, totalRise, stairData.totalRunIn)>>

Stringers(stairData, numStringers, stairWidthIn) ==
    LET stringerSpacing == Div(stairWidthIn, Sub(numStringers, Whole(1)))
    IN  [i \in 1..LoopCount(numStringers) |->
            StringerPath(Mul(Whole(i - 1), stringerSpacing), stairData)]

\* One 8-vertex box per tread: the bottom face, then the top face.
Treads(stairData, stairWidthIn) ==
    LET exactRiserIn == stairData.exactRiserIn
        treadRunIn   == stairData.treadRunIn
        tread(step) ==
            LET riseY == Mul(Whole(step + 1), exactRiserIn)
                runZ  == Mul(Whole(step + 1), treadRunIn)
                topY  == Add(riseY, TREAD_THICKNESS)
                front == Sub(runZ, treadRunIn)
            IN  <<Vector3(Whole(0), riseY, front),
                  Vector3(stairWidthIn, riseY, front),
                  Vector3(stairWidthIn, riseY, runZ),
                  Vector3(Whole(0), riseY, runZ),
                  Vector3(Whole(0), topY, front),
                  Vector3(stairWidthIn, topY, front),
                  Vector3(stairWidthIn, topY, runZ),
                  Vector3(Whole(0), topY, runZ)>>
    IN  [k \in 1..LoopCount(stairData.numTreads) |-> tread(k - 1)]

\* One vertical 4-vertex rectangle per riser.
Risers(stairData, stairWidthIn) ==
    LET exactRiserIn == stairData.exactRiserIn
        treadRunIn   == stairData.treadRunIn
        riser(step) ==
            LET bottomY == Mul(Whole(step), exactRiserIn)
                topY    == Mul(Whole(step + 1), exactRiserIn)
                runZ    == Mul(Whole(step), treadRunIn)
            IN  <<Vector3(Whole(0), bottomY, runZ),
                  Vector3(stairWidthIn, bottomY, runZ),
                  Vector3(stairWidthIn, topY, runZ),
                  Vector3(Whole(0), topY, runZ)>>
    IN  [k \in 1..LoopCount(stairData.numRisers) |-> riser(k - 1)]

buildStaircaseGeometry(stairData, materialsData, stairWidthIn) ==
    IF \/ materialsData.numStringers = Infinity
       \/ stairData.numTreads = Infinity
       \/ stairData.numRisers = Infinity
    THEN Diverges
    ELSE Returned(
           [stringers  |-> Stringers(stairData, materialsData.numStringers,
                                     stairWidthIn),
            treads     |-> Treads(stairData, stairWidthIn),
            risers     |-> Risers(stairData, stairWidthIn),
            dimensions |-> [width  |-> stairWidthIn,
                            height |-> Mul(stairData.numRisers,
                                           stairData.exactRiserIn),
                            depth  |-> stairData.totalRunIn]])

(***************************************************************************)
(* Units: strings and the fraction formatter                               *)
(*                                                                         *)
(* A string is the sequence of its characters, each a one-character        *)
(* string: "7 5/16" is <<"7", " ", "5", "/", "1", "6">>.                   *)
(***************************************************************************)
DigitChars == <<"0", "1", "2", "3", "4", "5", "6", "7", "8", "9">>

IsDigit(c) == \E i \in 1..Len(DigitChars) : DigitChars[i] = c

DigitValue(c) == (CHOOSE i \in 1..Len(DigitChars) : DigitChars[i] = c) - 1

\* Characters of s from position i on that are in the class.
RECURSIVE Run(_, _, _)
Run(s, i, class) ==
    IF i <= Len(s) /\ s[i] \in class THEN 1 + Run(s, i + 1, class) ELSE 0

\* \d, \s (of the characters modelled, the space is the only white space),
\* [+-] and [a-z].
DigitSet == {DigitChars[i] : i \in 1..Len(DigitChars)}

SpaceSet == {" "}

SignSet == {"+", "-"}

LowerChars ==
    <<"a", "b", "c", "d", "e", "f", "g", "h", "i", "j", "k", "l", "m",
      "n", "o", "p", "q", "r", "s", "t", "u", "v", "w", "x", "y", "z">>

UpperChars ==
    <<"A", "B", "C", "D", "E", "F", "G", "H", "I", "J", "K", "L", "M",
      "N", "O", "P", "Q", "R", "S", "T", "U", "V", "W", "X", "Y", "Z">>

LowerSet == {LowerChars[i] : i \in 1..Len(LowerChars)}

\* s.trim()
Trim(s) ==
    LET lead  == Run(s, 1, SpaceSet)
        Trail == {k \in 0..Len(s) : \A i \in (k + 1)..Len(s) : s[i] \in SpaceSet}
        last  == CHOOSE k \in Trail : \A j \in Trail : k <= j
    IN  IF lead = Len(s) THEN <<>> ELSE SubSeq(s, lead + 1, last)

\* s.toLowerCase()
ToLowerCase(s) ==
    [i \in 1..Len(s) |->
        IF \E k \in 1..Len(UpperChars) : UpperChars[k] = s[i]
        THEN LowerChars[CHOOSE k \in 1..Len(UpperChars) : UpperChars[k] = s[i]]
        ELSE s[i]]

\* s.replace(/"/g, ""), s.replace(/-/g, " ") and s.replace(/[a-z]/g, "")
RemoveQuotes(s) == SelectSeq(s, LAMBDA c : c # "\"")

ReplaceHyphens(s) == [i \in 1..Len(s) |-> IF s[i] = "-" THEN " " ELSE s[i]]

RemoveLetters(s) == SelectSeq(s, LAMBDA c : c \notin LowerSet)

\* s.replace(/\s+/g, " "): every run of white space becomes one space.
RECURSIVE CollapseSpaces(_)
CollapseSpaces(s) ==
    IF s = <<>> THEN <<>>
    ELSE IF s[1] \in SpaceSet
         THEN <<" ">> \o CollapseSpaces(SubSeq(s, 1 + Run(s, 1, SpaceSet), Len(s)))
    ELSE <<s[1]>> \o CollapseSpaces(Tail(s))

RECURSIVE DigitsValue(_)
DigitsValue(s) ==
    IF s = <<>> THEN 0
    ELSE 10 * DigitsValue(SubSeq(s, 1, Len(s) - 1)) + DigitValue(s[Len(s)])

RECURSIVE Pow10(_)
Pow10(k) == IF k = 0 THEN 1 ELSE 10 * Pow10(k - 1)

\* The parts of s read as [+-]? \d+ ( \. \d+ )?, and whether that is all of s:
\* /^[+-]?\d+(\.\d+)?$/.test(s)
PlainParts(s) ==
    LET sg == IF Len(s) > 0 /\ s[1] \in SignSet THEN 1 ELSE 0
        a  == Run(s, sg + 1, DigitSet)
        e  == sg + a
        b  == IF e < Len(s) /\ s[e + 1] = "." THEN Run(s, e + 2, DigitSet) ELSE 0
    IN  [sign |-> IF sg = 1 /\ s[1] = "-" THEN 0 - 1 ELSE 1,
         int  |-> SubSeq(s, sg + 1, e),
         frac |-> SubSeq(s, e + 2, e + 1 + b),
         all  |-> a > 0 /\ (e = Len(s) \/ (b > 0 /\ e + 1 + b = Len(s)))]

IsPlainNumber(s) == PlainParts(s).all

\* Number(s) for a string of that form.
Number(s) ==
    LET q == PlainParts(s)
    IN  Num(q.sign * (DigitsValue(q.int) * Pow10(Len(q.frac)) + DigitsValue(q.frac)),
            Pow10(Len(q.frac)))

\* str.match(/^([+-]?\d+)\s*'\s*(.*)$/): the feet and what follows the marker.
FeetMatch(str) ==
    LET sg == IF Len(str) > 0 /\ str[1] \in SignSet THEN 1 ELSE 0
        a  == Run(str, sg + 1, DigitSet)
        sp == Run(str, sg + a + 1, SpaceSet)
        q  == sg + a + sp + 1
        after == Run(str, q + 1, SpaceSet)
    IN  IF a > 0 /\ q <= Len(str) /\ str[q] = "'"
        THEN [matched |-> TRUE, feet |-> SubSeq(str, 1, sg + a),
              rest |-> SubSeq(str, q + 1 + after, Len(str))]
        ELSE [matched |-> FALSE, feet |-> <<>>, rest |-> <<>>]

\* p.match(/^([+-]?\d+)\s+(\d+)\s*\/\s*(\d+)$/)
MixedMatch(p) ==
    LET sg  == IF Len(p) > 0 /\ p[1] \in SignSet THEN 1 ELSE 0
        a   == Run(p, sg + 1, DigitSet)
        i1  == sg + a + 1
        sp  == Run(p, i1, SpaceSet)
        i2  == i1 + sp
        b   == Run(p, i2, DigitSet)
        i3  == i2 + b + Run(p, i2 + b, SpaceSet)
        i4  == i3 + 1 + Run(p, i3 + 1, SpaceSet)
        c   == Run(p, i4, DigitSet)
    IN  IF a > 0 /\ sp > 0 /\ b > 0 /\ i3 <= Len(p) /\ p[i3] = "/"
           /\ c > 0 /\ i4 + c = Len(p) + 1
        THEN [matched |-> TRUE, whole |-> SubSeq(p, 1, sg + a),
              num |-> SubSeq(p, i2, i2 + b - 1), den |-> SubSeq(p, i4, Len(p))]
        ELSE [matched |-> FALSE, whole |-> <<>>, num |-> <<>>, den |-> <<>>]

\* p.match(/^(\d+)\s*\/\s*(\d+)$/)
FracMatch(p) ==
    LET a  == Run(p, 1, DigitSet)
        i3 == a + 1 + Run(p, a + 1, SpaceSet)
        i4 == i3 + 1 + Run(p, i3 + 1, SpaceSet)
        c  == Run(p, i4, DigitSet)
    IN  IF a > 0 /\ i3 <= Len(p) /\ p[i3] = "/" /\ c > 0 /\ i4 + c = Len(p) + 1
        THEN [matched |-> TRUE, num |-> SubSeq(p, 1, a), den |-> SubSeq(p, i4, Len(p))]
        ELSE [matched |-> FALSE, num |-> <<>>, den |-> <<>>]

RECURSIVE parseInchesPart(_)
parseInchesPart(part) ==
    LET p0      == Trim(part)
        p       == ReplaceHyphens(p0)
        mixed   == MixedMatch(p)
        frac    == FracMatch(p)
        cleaned == Trim(RemoveLetters(p))
    IN  IF p0 = <<>> THEN Returned(Whole(0))
        ELSE IF IsPlainNumber(p) THEN Returned(Number(p))
        ELSE IF mixed.matched
             THEN IF NumEq(Number(mixed.den), Whole(0))
                  THEN Thrown("Invalid fraction")
                  ELSE Returned(Add(Number(mixed.whole),
                                    Div(Number(mixed.num), Number(mixed.den))))
        ELSE IF frac.matched
             THEN IF NumEq(Number(frac.den), Whole(0))
                  THEN Thrown("Invalid fraction")
                  ELSE Returned(Div(Number(frac.num), Number(frac.den)))
        ELSE IF cleaned # p THEN parseInchesPart(cleaned)
        ELSE Thrown("Unrecognized format")

\* feet * 12 + inches
FeetAndInchesTen(feet, inches) == Add(Mul(feet, Whole(10)), inches)

FeetAndInches(feet, inches) == Add(Mul(feet, Whole(12)), inches)

parseInches(in) ==
    LET s    == ToLowerCase(Trim(in))
        str  == Trim(CollapseSpaces(RemoveQuotes(s)))
        fm   == FeetMatch(str)
        feet == IF fm.matched THEN Number(fm.feet) ELSE Whole(0)
        rest == IF fm.matched THEN Trim(fm.rest) ELSE str
        inches == IF rest = <<>> THEN Returned(Whole(0)) ELSE parseInchesPart(rest)
    IN  IF s = <<>> THEN Thrown("Empty input")
        ELSE IF IsPlainNumber(s) THEN Returned(Number(s))
        ELSE IF inches.kind = "throw" THEN inches
        ELSE Returned(FeetAndInches(feet, inches.value))

\* The decimal digits of a natural number.
RECURSIVE NatString(_)
NatString(n) ==
    IF n < 10 THEN <<DigitChars[n + 1]>>
    ELSE Append(NatString(n \div 10), DigitChars[(n % 10) + 1])

\* `${x}` for a number x that is an integer.
NumberString(x) ==
    IF x.n < 0 THEN <<"-">> \o NatString(0 - x.n) ELSE NatString(x.n)

\* Math.floor(x + 1e-9) for a finite x: the next integer up when x is within
\* 1e-9 below it, the floor of x otherwise.
FloorNudged(x) ==
    LET f   == x.n \div x.d
        gap == (f + 1) * x.d - x.n
    IN  IF gap <= x.d \div 1000000000 THEN Whole(f + 1) ELSE Whole(f)

\* gcd of two integers, by absolute values.
gcd(a, b) == Whole(Gcd(Abs(a.n), Abs(b.n)))

toFraction(valueIn, denom) ==
    LET whole == FloorNudged(valueIn)
        frac  == Sub(valueIn, whole)
        n     == MathRound(Mul(frac, denom))
        g     == gcd(n, denom)
        nn    == Div(n, g)
        dd    == Div(denom, g)
    IN  IF NumEq(n, Whole(0)) THEN NumberString(whole)
        ELSE IF NumEq(n, denom) THEN NumberString(Add(whole, Whole(1)))
        ELSE IF NumEq(whole, Whole(0))
             THEN NumberString(nn) \o <<"/">> \o NumberString(dd)
        ELSE NumberString(whole) \o <<" ">> \o NumberString(nn)
                 \o <<"/">> \o NumberString(dd)

\* Math.abs and Math.floor
MathAbs(x) == IF x.n < 0 THEN Neg(x) ELSE x

MathFloor(x) == IF x.d = 0 THEN x ELSE Whole(x.n \div x.d)

toFeetInches(inches) ==
    LET sign == IF Lt(inches, Whole(0)) THEN <<"-">> ELSE <<>>
        abs  == MathAbs(inches)
        ft   == MathFloor(Div(abs, Whole(12)))
        inch == Sub(abs, Mul(ft, Whole(12)))
        frac == toFraction(inch, Whole(16))
    IN  IF Gt(ft, Whole(0))
        THEN sign \o NumberString(ft) \o <<"'", " ">> \o frac \o <<"\"">>
        ELSE sign \o frac \o <<"\"">>

(***************************************************************************)
(* The 3D view: the scene's camera and the perspective calibrator          *)
(***************************************************************************)
\* null
Null == [null |-> TRUE]

\* geometry.dimensions of the staircase shown.
StairDimensions == [width |-> Whole(36), height |-> Whole(15), depth |-> Whole(20)]

\* The natural size of the photo, known once it has loaded.
ImageDimensions == [width |-> Whole(800), height |-> Whole(600)]

\* A number in a condition: 0 and NaN are falsy, as undefined is.
Truthy(x) == x # Undefined /\ ~IsNaN(x) /\ x # Whole(0)

\* The camera position createStaircaseScene sets: matched to the photo when
\* calibration data is passed, the isometric default otherwise.
DefaultCamera(dims) ==
    LET maxDim == MathMax(MathMax(dims.width, dims.height), dims.depth)
        cameraDistance == Mul(maxDim, Num(5, 2))
    IN  Vector3(cameraDistance, Mul(cameraDistance, Num(4, 5)), cameraDistance)

CalibratedCamera(dims, data) ==
    LET maxDim == MathMax(MathMax(dims.width, dims.height), dims.depth)
        floorHeight == Mul(Sub(Whole(1), data.floorY), dims.height)
        cameraHeight == Add(floorHeight, Mul(dims.height, Num(1, 2)))
        cameraDistance == Mul(maxDim, Whole(3))
        horizontalOffset ==
            IF Truthy(data.vanishingPointX)
            THEN Mul(Mul(Sub(data.vanishingPointX, Num(1, 2)), dims.depth), Whole(2))
            ELSE Whole(0)
    IN  Vector3(Add(Div(dims.width, Whole(2)), horizontalOffset),
                cameraHeight, cameraDistance)

CameraPositionDefault(dims, data) == DefaultCamera(dims)

CameraPosition(dims, data) ==
    IF data # Undefined THEN CalibratedCamera(dims, data) ELSE DefaultCamera(dims)

\* 0xdeb887, 0xb8860b and 0xd2691e
WOOD_COLORS == [pine |-> 14596231, oak |-> 12092939, cedar |-> 13789470]

\* The scene: its camera, its background (the photo's texture, or the plain
\* colour when no image is passed), the material of the stringer and riser
\* meshes and the material of the tread meshes.
createStaircaseScene(dims, bgImage, data) ==
    [camera        |-> CameraPosition(dims, data),
     background    |-> IF bgImage # Undefined THEN "texture" ELSE "color",
     woodMaterial  |-> [color |-> WOOD_COLORS.pine],
     treadMaterial |-> [color |-> WOOD_COLORS.oak]]

\* updateWoodType: the colour of the stringer and riser meshes' material.
updateWoodType(controls, wood) ==
    [controls EXCEPT !.woodMaterial.color = WOOD_COLORS[wood]]

\* A scene of the view as initScene leaves it, animate() called: its
\* controls, its loop running, not disposed of, and the effect run that
\* created it.
SceneOf(controls, run) ==
    [controls |-> controls, animating |-> TRUE, disposed |-> FALSE, run |-> run]

\* The effect's cleanup: the scene the ref holds is disposed of, which
\* cancels its loop.
Cleanup(scs, ref) ==
    IF ref # 0
    THEN [scs EXCEPT ![ref].animating = FALSE, ![ref].disposed = TRUE]
    ELSE scs

\* loadImage: the decoded image, or the rejection of an image that does not
\* decode.
loadImage(file) ==
    IF file.decodes THEN Returned([image |-> file])
    ELSE Thrown("Failed to load background image")

\* initScene: what the view holds once it has run, the scene (none when it
\* threw) and the error shown.
initScene(file, data) ==
    LET loaded == IF file # Null THEN loadImage(file) ELSE Returned(Undefined)
    IN  IF loaded.kind = "throw"
        THEN [scene |-> Null, error |-> [message |-> loaded.message]]
        ELSE [scene |-> createStaircaseScene(StairDimensions, loaded.value,
                            IF data # Null THEN data ELSE Undefined),
              error |-> Null]

NEED_POINTS_ALERT == [alert |-> "Please mark at least 2 reference points"]

TooFewPointsOne(pts) == Len(pts) < 1

TooFewPoints(pts) == Len(pts) < 2

RECURSIVE SumX(_)
SumX(pts) == IF pts = <<>> THEN Whole(0) ELSE Add(pts[1].x, SumX(Tail(pts)))

VanishingPointXFirst(pts) == pts[1].x

VanishingPointX(pts) == Div(SumX(pts), Whole(Len(pts)))

\* handleComplete: the calibration data passed to onCalibrationComplete.
handleComplete(pts, floor, dims) ==
    [points          |-> pts,
     imageWidth      |-> dims.width,
     imageHeight     |-> dims.height,
     floorY          |-> floor,
     vanishingPointX |-> IF Len(pts) >= 2 THEN VanishingPointX(pts) ELSE Undefined,
     vanishingPointY |-> IF Len(pts) >= 2 THEN Num(4, 10) ELSE Undefined]

\* handleCalibrationComplete: what the view keeps of it.
handleCalibrationComplete(data) ==
    [floorY          |-> data.floorY,
     vanishingPointX |-> data.vanishingPointX,
     vanishingPointY |-> data.vanishingPointY,
     imageWidth      |-> data.imageWidth,
     imageHeight     |-> data.imageHeight]

PointLabelFromZero(k) == <<"P", "o", "i", "n", "t", " ">> \o NatString(k - 1)

PointLabel(k) == <<"P", "o", "i", "n", "t", " ">> \o NatString(k)

\* handleCanvasClick: the click as fractions of the canvas's width and height.
ClickAt(e, rect) ==
    [x |-> Div(Whole(e.clientX - rect.left), Whole(rect.width)),
     y |-> Div(Whole(e.clientY - rect.top), Whole(rect.height))]

(***************************************************************************)
(* The 2D view                                                             *)
(***************************************************************************)
\* What a draw routine puts on the canvas, in order; the first step of each
\* fills the whole canvas with white.
DrawSteps(view) ==
    IF view = "elevation"
    THEN <<"clear", "stringers", "treads", "dimensions", "titleBlock">>
    ELSE IF view = "plan"
    THEN <<"clear", "treads", "stringers", "dimensions", "titleBlock", "legend">>
    ELSE <<"clear", "outline", "cutLines", "dimensions", "titleBlock", "note">>

\* The canvas after the first `done` steps of a view's routine have run on
\* it.
Paint(canvas, view, done) ==
    IF done = 0 THEN canvas
    ELSE [i \in 1..(done - 1) |-> [view |-> view, mark |-> DrawSteps(view)[i + 1]]]

getViewTitle(view) ==
    IF view = "elevation" THEN "Side Elevation"
    ELSE IF view = "plan" THEN "Plan View"
    ELSE IF view = "stringer" THEN "Stringer Detail"
    ELSE ""

\* What Canvas2DView renders: the title, the two export buttons, the canvas
\* and the caption; it has no element for an error.
Canvas2DViewShows ==
    [title        |-> getViewTitle(viewType),
     canvas       |-> raster,
     caption      |-> "Technical drawing with dimensions. Export to share or print.",
     errorMessage |-> Null]

SCALE == Whole(8)

MARGIN == Whole(60)

\* The canvas of Canvas2DView is 1200 by 800.
CanvasHeight == Whole(800)

Point(x, y) == [x |-> x, y |-> y]

\* The stepped line of drawSideElevation: moveTo, then for i = 0 .. numTreads
\* a horizontal lineTo and, for i < numTreads, a vertical one.
ProfilePath(data, offsetX, offsetY) ==
    LET run  == Mul(data.treadRunIn, SCALE)
        rise == Mul(data.exactRiserIn, SCALE)
        lineTo(i) ==
            LET runZ  == Mul(Whole(i), run)
                riseY == Mul(Whole(i), rise)
            IN  <<Point(Add(Add(offsetX, runZ), run), Sub(offsetY, riseY))>>
                \o (IF Lt(Whole(i), data.numTreads)
                    THEN <<Point(Add(Add(offsetX, runZ), run),
                                 Sub(offsetY, Add(riseY, rise)))>>
                    ELSE <<>>)
        n == LoopCount(Add(data.numTreads, Whole(1)))
    IN  <<Point(offsetX, offsetY)>>
        \o [j \in 1..(2 * n - 1) |-> lineTo((j - 1) \div 2)[((j - 1) % 2) + 1]]

\* The tread slabs: one fillRect(x, y, w, h) for i = 0 .. numTreads - 1.
TreadSlabs(data, offsetX, offsetY) ==
    [k \in 1..LoopCount(data.numTreads) |->
        LET runZ  == Mul(Mul(Whole(k - 1), data.treadRunIn), SCALE)
            riseY == Mul(Mul(Whole(k), data.exactRiserIn), SCALE)
        IN  [x |-> Add(offsetX, runZ),
             y |-> Sub(Sub(offsetY, riseY), Whole(4)),
             w |-> Mul(data.treadRunIn, SCALE),
             h |-> Whole(4)]]

\* drawDimension(ctx, x1, y1, x2, y2, ...): the line measured.
Dimension(x1, y1, x2, y2) == [x1 |-> x1, y1 |-> y1, x2 |-> x2, y2 |-> y2]

\* drawSideElevation: the profile, the tread slabs and the two total
\* dimensions it draws on a canvas of the height given. Loops bounded by
\* Infinity do not end.
drawSideElevation(data, height) ==
    LET totalRise  == Mul(data.numRisers, data.exactRiserIn)
        drawWidth  == Mul(data.totalRunIn, SCALE)
        drawHeight == Mul(totalRise, SCALE)
        offsetX    == MARGIN
        offsetY    == Sub(height, MARGIN)
    IN  IF data.numTreads = Infinity \/ data.numRisers = Infinity THEN Diverges
        ELSE Returned(
               [profile   |-> ProfilePath(data, offsetX, offsetY),
                treads    |-> TreadSlabs(data, offsetX, offsetY),
                totalRun  |-> Dimension(offsetX, Add(offsetY, Whole(40)),
                                        Add(offsetX, drawWidth),
                                        Add(offsetY, Whole(40))),
                totalRise |-> Dimension(Sub(offsetX, Whole(60)), offsetY,
                                        Sub(offsetX, Whole(60)),
                                        Sub(offsetY, drawHeight))])

(***************************************************************************)
(* The page: the result of the fields entered                              *)
(***************************************************************************)
\* The least whole number k with k * k >= x, for a finite x >= 0: an upper
\* end is found by doubling, then the interval (lo, hi] is halved.
RECURSIVE SquareAbove(_, _)
SquareAbove(x, k) == IF k * k * x.d >= x.n THEN k ELSE SquareAbove(x, 2 * k)

RECURSIVE CeilSqrtIn(_, _, _)
CeilSqrtIn(x, lo, hi) ==
    IF hi - lo <= 1 THEN hi
    ELSE LET mid == (lo + hi) \div 2
         IN  IF mid * mid * x.d >= x.n THEN CeilSqrtIn(x, lo, mid)
             ELSE CeilSqrtIn(x, mid, hi)

\* Math.sqrt(x), rounded up to a whole number: calcMaterials only compares
\* the stringer length with whole numbers of feet, which this keeps.
SqrtCeil(x) ==
    IF x.d = 0 THEN x
    ELSE IF x.n <= 0 THEN Whole(0)
    ELSE Whole(CeilSqrtIn(x, 0, SquareAbove(x, 1)))

\* The result when a step threw.
Failed(message) == [ok |-> FALSE, error |-> message]

\* result, once the layout is solved: the materials are estimated.
ResultOfLayout(f, totalRiseIn, stairWidthIn, stringerOcin, layout) ==
    IF layout.kind = "throw" THEN Failed(layout.message)
    ELSE IF stairWidthIn.kind = "throw" THEN Failed(stairWidthIn.message)
    ELSE IF stringerOcin.kind = "throw" THEN Failed(stringerOcin.message)
    ELSE [ok           |-> TRUE,
          totalRiseIn  |-> totalRiseIn.value,
          out          |-> layout.value,
          stairWidthIn |-> stairWidthIn.value,
          stringerOcin |-> stringerOcin.value,
          mat          |-> calcMaterials(
                              [stairWidthIn  |-> stairWidthIn.value,
                               stringerOcin  |-> stringerOcin.value,
                               closedStair   |-> f.closedStair,
                               numTreads     |-> layout.value.numTreads,
                               numRisers     |-> layout.value.numRisers,
                               stringerLenIn |-> SqrtCeil(layout.value.stringerLenSq)])]

\* result, once the fields are parsed: the layout is solved. The finish
\* offsets count only in finish mode, and a blank target riser is none.
ResultOfParsed(f, inches) ==
    LET totalRiseIn    == inches.totalRise
        treadRunIn     == inches.treadRun
        targetRiserIn  == IF Trim(f.targetRiser) # <<>> THEN inches.targetRiser
                          ELSE Returned(Undefined)
        topFinishIn    == IF f.finishMode THEN inches.topFinish
                          ELSE Returned(Whole(0))
        bottomFinishIn == IF f.finishMode THEN inches.bottomFinish
                          ELSE Returned(Whole(0))
    IN  IF totalRiseIn.kind = "throw" THEN Failed(totalRiseIn.message)
        ELSE IF treadRunIn.kind = "throw" THEN Failed(treadRunIn.message)
        ELSE IF targetRiserIn.kind = "throw" THEN Failed(targetRiserIn.message)
        ELSE IF topFinishIn.kind = "throw" THEN Failed(topFinishIn.message)
        ELSE IF bottomFinishIn.kind = "throw" THEN Failed(bottomFinishIn.message)
        ELSE ResultOfLayout(f, totalRiseIn, inches.stairWidth, inches.stringerOc,
                            calcStairs([totalRiseIn    |-> totalRiseIn.value,
                                        treadRunIn     |-> treadRunIn.value,
                                        targetRiserIn  |-> targetRiserIn.value,
                                        finishMode     |-> f.finishMode,
                                        topFinishIn    |-> topFinishIn.value,
                                        bottomFinishIn |-> bottomFinishIn.value]))

\* The fields that hold a length.
LengthFields ==
    {"totalRise", "treadRun", "targetRiser", "topFinish", "bottomFinish",
     "stairWidth", "stringerOc"}

\* result: the fields parsed, the layout solved, the materials estimated; the
\* first exception ends it.
Result(f) == ResultOfParsed(f, [k \in LengthFields |-> parseInches(f[k])])

(***************************************************************************)
(* The image store                                                         *)
(***************************************************************************)
MAX_IMAGES_PER_JOB == 10

\* The records of a set in ascending order of their ids, the primary key.
RECURSIVE InIdOrder(_)
InIdOrder(records) ==
    IF records = {} THEN <<>>
    ELSE LET first == CHOOSE r \in records : \A q \in records : r.id <= q.id
         IN  <<first>> \o InIdOrder(records \ {first})

\* db.getAllFromIndex(STORE_NAME, "jobId", jobId): the job's records, in the
\* order of their ids.
getAllFromIndex(db, jobId) == InIdOrder({r \in db : r.jobId = jobId})

\* Array.prototype.sort by upload time, ascending; records of one time keep
\* their order.
RECURSIVE InsertByTime(_, _)
InsertByTime(sorted, r) ==
    IF sorted = <<>> THEN <<r>>
    ELSE IF sorted[Len(sorted)].uploadedAt <= r.uploadedAt THEN Append(sorted, r)
    ELSE Append(InsertByTime(SubSeq(sorted, 1, Len(sorted) - 1), r),
                sorted[Len(sorted)])

RECURSIVE SortByTime(_)
SortByTime(images) ==
    IF images = <<>> THEN <<>>
    ELSE InsertByTime(SortByTime(SubSeq(images, 1, Len(images) - 1)),
                      images[Len(images)])

\* How many images a save deletes that found `count` of them.
EvictionCountToCap(count) == count - MAX_IMAGES_PER_JOB

EvictionCount(count) == count - MAX_IMAGES_PER_JOB + 1

\* The images saveImage deletes, having read existingImages.
ToDelete(existingImages) ==
    IF Len(existingImages) >= MAX_IMAGES_PER_JOB
    THEN SubSeq(SortByTime(existingImages), 1, EvictionCount(Len(existingImages)))
    ELSE <<>>

\* A saveImage call is in flight until it has returned or thrown.
InFlight(call) == call.pc \notin {"done", "failed"}

(***************************************************************************)
(* The page: saving and loading jobs                                       *)
(***************************************************************************)
\* saveJob: the job saved, the fields kept as the strings entered. The time
\* of saving is left out.
SavedJob(id, f, imageId, view) ==
    [id           |-> id,
     name         |-> IF Trim(f.jobName) # <<>> THEN Trim(f.jobName)
                      ELSE <<"J", "o", "b">>,
     totalRise    |-> f.totalRise,
     targetRiser  |-> f.targetRiser,
     treadRun     |-> f.treadRun,
     finishMode   |-> f.finishMode,
     topFinish    |-> f.topFinish,
     bottomFinish |-> f.bottomFinish,
     stairWidth   |-> f.stairWidth,
     stringerOc   |-> f.stringerOc,
     closedStair  |-> f.closedStair,
     imageId      |-> imageId,
     renderViewPreference |-> IF view # "none" THEN [view |-> view]
                              ELSE Undefined]

\* loadJob: the fields as it sets them.
LoadedFields(j) ==
    [jobName      |-> j.name,
     totalRise    |-> j.totalRise,
     targetRiser  |-> j.targetRiser,
     treadRun     |-> j.treadRun,
     finishMode   |-> j.finishMode,
     topFinish    |-> j.topFinish,
     bottomFinish |-> j.bottomFinish,
     stairWidth   |-> j.stairWidth,
     stringerOc   |-> j.stringerOc,
     closedStair  |-> j.closedStair]

\* loadJob: the view it sets once the image is dealt with.
LoadedView(j) ==
    IF j.renderViewPreference # Undefined THEN j.renderViewPreference.view
    ELSE "none"

\* saveImage: the record added for a file, its picture resized and encoded
\* as JPEG.
ImageRecord(id, jobId, file) ==
    [id       |-> id,
     jobId    |-> jobId,
     filename |-> file.name,
     blob     |-> [picture |-> file.picture, type |-> "image/jpeg"]]

\* getImage: record?.blob ?? null.
getImage(db, imageId) ==
    LET found == {i \in DOMAIN db : db[i].id = imageId}
    IN  IF found # {} THEN db[CHOOSE i \in found : TRUE].blob ELSE Null

\* loadJob: the file made of the blob retrieved.
SavedImageFile(blob) ==
    [name |-> "saved-image.jpg", picture |-> blob.picture, type |-> blob.type]

(***************************************************************************)
(* Inputs                                                                  *)
(***************************************************************************)
MaxRiseHalves == 3

MaxTargetSteps == 1

\* Total rises: -1/2 .. MaxRiseHalves/2 in half inches, and 109.5 (9' 1 1/2").
TotalRises == {Num(k, 2) : k \in (0 - 1)..MaxRiseHalves} \cup {Num(219, 2)}

\* Tread runs; StairInputs types treadRunIn as a number, never undefined.
TreadRuns == {Whole(0 - 3), Whole(0), Whole(7), Whole(10)}

\* Target risers: none given, 7.25, and -3 .. 3 * MaxTargetSteps inches in
\* steps of 3.
TargetRisers ==
    {Undefined, Num(29, 4)} \cup {Whole(3 * k) : k \in (0 - 1)..MaxTargetSteps}

FinishOffsets == {Undefined, Num(1, 2)}

StairInputs ==
    [totalRiseIn : TotalRises, treadRunIn : TreadRuns,
     targetRiserIn : TargetRisers, finishMode : BOOLEAN,
     topFinishIn : FinishOffsets, bottomFinishIn : FinishOffsets]

StairWidths == {Whole(0), Whole(36), Whole(48)}

StringerOcs == {Whole(0 - 16), Whole(0), Whole(16)}

\* Stringer lengths: inside the catalog, its longest entry (20 ft), beyond it.
StringerLens == {Whole(97), Whole(240), Whole(250)}

MaxThirtySeconds == 40

\* Values to format: the thirty-seconds of an inch from -MaxThirtySeconds/32
\* to MaxThirtySeconds/32, and 7.96875 and 7.3125.
FractionValues ==
    {Num(k, 32) : k \in (0 - MaxThirtySeconds)..MaxThirtySeconds}
        \cup {Num(255, 32), Num(117, 16)}

MaxFeetThirtySeconds == 800

\* Lengths to write in feet and inches: the thirty-seconds of an inch from
\* -MaxFeetThirtySeconds/32 to MaxFeetThirtySeconds/32 (25 inches).
FeetInchesValues ==
    {Num(k, 32) : k \in (0 - MaxFeetThirtySeconds)..MaxFeetThirtySeconds}

\* Denominators: halves, and the display's sixteenths.
Denoms == {Whole(2), Whole(16)}

FormatInputs == [valueIn : FractionValues, denom : Denoms]

\* Lengths as they are typed: feet with the marker, a gap, whole inches, a
\* joiner, a fraction, the inch mark; each part present or not.
FeetCounts == {Undefined, Whole(0 - 2), Whole(0), Whole(9)}

WholeInches == {Undefined, Whole(1), Whole(11)}

Fractions ==
    {Undefined, [n |-> 1, d |-> 2], [n |-> 17, d |-> 64], [n |-> 3, d |-> 4],
     [n |-> 1, d |-> 0]}

Compositions ==
    [feet : FeetCounts, gap : {<<>>, <<" ">>}, whole : WholeInches,
     joiner : {<<" ">>, <<"-">>}, frac : Fractions, mark : {<<>>, <<"\"">>}]

Compose(c) ==
    (IF c.feet = Undefined THEN <<>> ELSE NumberString(c.feet) \o <<"'">> \o c.gap)
        \o (IF c.whole = Undefined THEN <<>> ELSE NumberString(c.whole))
        \o (IF c.whole # Undefined /\ c.frac # Undefined THEN c.joiner ELSE <<>>)
        \o (IF c.frac = Undefined THEN <<>>
            ELSE NatString(c.frac.n) \o <<"/">> \o NatString(c.frac.d))
        \o c.mark

\* Bare integers and decimals: a sign, the integer digits, the decimals with
\* the number they stand for.
DecimalCompositions ==
    [sign : {<<>>, <<"-">>, <<"+">>}, int : {0, 12},
     decimals : {[chars |-> <<>>, value |-> Whole(0)],
                 [chars |-> <<".", "5">>, value |-> Num(1, 2)],
                 [chars |-> <<".", "2", "5">>, value |-> Num(1, 4)],
                 [chars |-> <<".", "0", "5">>, value |-> Num(1, 20)]}]

ComposeDecimal(c) == c.sign \o NatString(c.int) \o c.decimals.chars

\* Empty and white-space-only texts, and texts of no recognized form.
BlankTexts == {<<>>, <<" ">>, <<" ", " ">>}

UnrecognizedTexts ==
    {<<"a", "b", "c">>, <<"\"">>, <<"-", "-">>, <<".", "5">>,
     <<"1", "/", "2", "/", "3">>, <<"i", "n">>, <<"'">>, <<"1", ".">>,
     <<"1", " ", "2">>, <<"/">>}

\* Lengths with unit letters, in either case.
UnitTexts ==
    {<<"5", " ", "i", "n">>, <<"1", " ", "1", "/", "2", " ", "I", "N">>,
     <<"1", "/", "0", " ", "i", "n">>, <<"9", "'", " ", "6", "i", "n">>}

Texts ==
    {Compose(c) : c \in Compositions}
        \cup {ComposeDecimal(c) : c \in DecimalCompositions}
        \cup BlankTexts \cup UnrecognizedTexts \cup UnitTexts

MaxClicks == 4

\* Where the calibrator's canvas lies in the window, and where the mouse is
\* when it is clicked, in pixels.
CanvasRect == [left |-> 100, top |-> 50, width |-> 800, height |-> 600]

MouseEvents == {[clientX |-> 300, clientY |-> 350], [clientX |-> 700, clientY |-> 530]}

\* Where the photo is clicked, as fractions of its width and height.
Clicks == {ClickAt(e, CanvasRect) : e \in MouseEvents}

\* The photo passed to the view: none, one that decodes, one that does not.
BackgroundImages == {Null, [decodes |-> TRUE], [decodes |-> FALSE]}

MaxRequests == 6

\* The sizes the container takes.
ContainerSizes == {[width |-> 800, height |-> 600], [width |-> 400, height |-> 300]}

MaxDrawErrors == 2

ViewTypes == {"elevation", "plan", "stringer"}

MaxSaves == 2

JobIds == {"a", "b"}

\* The store to start with: job "a" has saved 8, 9 or 10 images, one after
\* the other, the ids in no order of time; job "b" has saved none.
InitialCounts == {8, 9, 10}

InitialStore(count) ==
    {[id |-> count + 1 - k, jobId |-> "a", uploadedAt |-> k] : k \in 1..count}

\* The texts of the page's fields: the defaults of the page, and texts that
\* are empty, zero or negative.
TotalRiseTexts ==
    {<<"9", "'", " ", "1", " ", "1", "/", "2", "\"">>, <<"1", "5">>, <<"0">>, <<>>}

TargetRiserTexts == {<<"7", ".", "2", "5">>, <<>>, <<"0">>, <<"-", "3">>}

TreadRunTexts == {<<"1", "0">>, <<"0">>}

FinishTexts == {<<"0">>, <<"1", "/", "2">>}

StairWidthTexts == {<<"3", "6">>, <<"4", "8">>, <<"0">>}

StringerOcTexts == {<<"1", "6">>, <<"0">>}

PageFields ==
    [jobName : {<<"J", "o", "b">>}, totalRise : TotalRiseTexts,
     targetRiser : TargetRiserTexts, treadRun : TreadRunTexts,
     finishMode : BOOLEAN, topFinish : FinishTexts, bottomFinish : {<<"0">>},
     stairWidth : StairWidthTexts, stringerOc : StringerOcTexts,
     closedStair : BOOLEAN]

\* The layouts drawn: every layout calcStairs returns for the inputs above.
ElevationLayouts ==
    {calcStairs(in).value : in \in {i \in StairInputs : calcStairs(i).kind = "return"}}

MaxEffectRuns == 3

MaxJobs == 2

MaxLoads == 3

\* The fields of the page as it starts.
InitialFields ==
    [jobName      |-> <<"J", "o", "b">>,
     totalRise    |-> <<"9", "'", " ", "1", " ", "1", "/", "2", "\"">>,
     targetRiser  |-> <<"7", ".", "2", "5">>,
     treadRun     |-> <<"1", "0">>,
     finishMode   |-> FALSE,
     topFinish    |-> <<"0">>,
     bottomFinish |-> <<"0">>,
     stairWidth   |-> <<"3", "6">>,
     stringerOc   |-> <<"1", "6">>,
     closedStair  |-> TRUE]

\* What is typed into the total rise.
TotalRiseEdits == {<<"9", "'", " ", "1", " ", "1", "/", "2", "\"">>, <<"1", "5">>}

\* The photos uploaded.
Photos ==
    {[name |-> "deck.png", picture |-> "deck", type |-> "image/png"],
     [name |-> "porch.png", picture |-> "porch", type |-> "image/png"]}

WoodTypes == {"pine", "oak", "cedar"}

\* What the effect depends on: four props and three pieces of state.
Dependencies ==
    {"stairData", "materialsData", "stairWidthIn", "backgroundImage",
     "calibrationData", "stairPosition", "stairRotation"}

\* The data a completed calibration leaves in the view.
SampleCalibration ==
    handleCalibrationComplete(
        handleComplete(<<[x |-> Num(1, 4), y |-> Num(1, 2), label |-> PointLabel(1)],
                         [x |-> Num(3, 4), y |-> Num(4, 5), label |-> PointLabel(2)]>>,
                       Num(9, 10), ImageDimensions))

(***************************************************************************)
(* The program: one evaluation of the page's result for the inputs entered *)
(* (layout, then materials), and the 3D view's geometry built from it.     *)
(***************************************************************************)
StairIdle ==
    /\ input = None
    /\ out = None
    /\ m = None
    /\ mat = None
    /\ geometry = None

FormatIdle ==
    /\ value = None
    /\ rendered = None

ParseIdle ==
    /\ text = <<>>
    /\ parsed = None

\* The calibrator as it mounts, and with no session yet.
CalibratorMounts ==
    /\ points' = <<>>
    /\ currentStep' = "floor"
    /\ floorY' = Num(9, 10)
    /\ alert' = Null

ViewIdle ==
    /\ backgroundImage = Null
    /\ isLoading = TRUE
    /\ error = Null
    /\ showCalibration = FALSE
    /\ calibrationData = Null
    /\ scene = Null
    /\ builtAfter = "none"
    /\ points = <<>>
    /\ currentStep = "floor"
    /\ floorY = Num(9, 10)
    /\ alert = Null
    /\ clickLog = <<>>
    /\ session = None

SceneIdle ==
    /\ animationId = Undefined
    /\ scheduled = {}
    /\ requests = 0
    /\ animateCalls = 0
    /\ disposed = FALSE
    /\ resizeListening = FALSE
    /\ rendererSize = Undefined
    /\ ranAfterDispose = FALSE

CanvasIdle ==
    /\ viewType = "elevation"
    /\ raster = <<>>
    /\ consoleErrors = <<>>
    /\ lastDraw = None

StoreIdle ==
    /\ store = {}
    /\ clock = 0
    /\ calls = <<>>
    /\ overlapped = FALSE

MountIdle ==
    /\ phase = "rendered"
    /\ woodType = "pine"
    /\ sceneRef = 0
    /\ scenes = <<>>
    /\ initScenes = {}
    /\ effectRuns = 0

ElevationIdle ==
    /\ elevationData = None
    /\ drawing = None

PageIdle ==
    /\ fields = None
    /\ result = None
    /\ activeRenderView = "none"
    /\ rendering = None
    /\ uploadedImage = Null
    /\ loadJobs = <<>>
    /\ completed = <<>>
    /\ jobs = <<>>
    /\ imageStore = <<>>

Init ==
    /\ input \in StairInputs
    /\ out = None
    /\ m = None
    /\ mat = None
    /\ geometry = None
    /\ FormatIdle
    /\ ParseIdle
    /\ ViewIdle
    /\ SceneIdle
    /\ CanvasIdle
    /\ StoreIdle
    /\ MountIdle
    /\ ElevationIdle
    /\ PageIdle

\* The layout is solved for the input.
CalcStairs ==
    /\ out = None
    /\ out' = calcStairs(input)
    /\ UNCHANGED <<input, m, mat, geometry>>
    /\ UNCHANGED notStair

\* The materials are estimated for a layout that was returned: the counts
\* are the layout's, the width, the spacing, the closed flag and the stringer
\* length are drawn.
CalcMaterials ==
    /\ out.kind = "return"
    /\ mat = None
    /\ \E w \in StairWidths, oc \in StringerOcs, closed \in BOOLEAN,
          len \in StringerLens :
          LET mi == [stairWidthIn  |-> w,
                     stringerOcin  |-> oc,
                     closedStair   |-> closed,
                     numTreads     |-> out.value.numTreads,
                     numRisers     |-> out.value.numRisers,
                     stringerLenIn |-> len]
          IN  /\ m' = mi
              /\ mat' = calcMaterials(mi)
    /\ UNCHANGED <<input, out, geometry>>
    /\ UNCHANGED notStair

\* The 3D view builds the geometry from the layout, the materials and the
\* width.
BuildGeometry ==
    /\ mat # None
    /\ geometry = None
    /\ geometry' = buildStaircaseGeometry(out.value, mat, m.stairWidthIn)
    /\ UNCHANGED <<input, out, m, mat>>
    /\ UNCHANGED notStair

Next == CalcStairs \/ CalcMaterials \/ BuildGeometry

Spec == Init /\ [][Next]_vars

(***************************************************************************)
(* The formatter: one value rendered as a fraction of an inch.             *)
(***************************************************************************)
FormatInit ==
    /\ value \in FormatInputs
    /\ rendered = None
    /\ StairIdle
    /\ ParseIdle
    /\ ViewIdle
    /\ SceneIdle
    /\ CanvasIdle
    /\ StoreIdle
    /\ MountIdle
    /\ ElevationIdle
    /\ PageIdle

ToFraction ==
    /\ value # None
    /\ rendered = None
    /\ rendered' = Returned(toFraction(value.valueIn, value.denom))
    /\ UNCHANGED value
    /\ UNCHANGED notFormat

FormatNext == ToFraction

FormatSpec == FormatInit /\ [][FormatNext]_vars

(***************************************************************************)
(* Feet and inches: one length written by toFeetInches, and what it wrote  *)
(* read back by parseInches.                                               *)
(***************************************************************************)
notFeet ==
    <<stairVars, viewVars, sceneVars, canvasVars, storeVars, mountVars,
      elevationVars, pageVars>>

FeetInit ==
    /\ value \in [inches : FeetInchesValues]
    /\ rendered = None
    /\ StairIdle
    /\ ParseIdle
    /\ ViewIdle
    /\ SceneIdle
    /\ CanvasIdle
    /\ StoreIdle
    /\ MountIdle
    /\ ElevationIdle
    /\ PageIdle

ToFeetInches ==
    /\ rendered = None
    /\ rendered' = Returned(toFeetInches(value.inches))
    /\ UNCHANGED <<value, text, parsed>>
    /\ UNCHANGED notFeet

\* What was written is read back.
ParseFeetInches ==
    /\ rendered # None
    /\ parsed = None
    /\ text' = rendered.value
    /\ parsed' = parseInches(rendered.value)
    /\ UNCHANGED <<value, rendered>>
    /\ UNCHANGED notFeet

FeetNext == ToFeetInches \/ ParseFeetInches

FeetSpec == FeetInit /\ [][FeetNext]_vars

(***************************************************************************)
(* The parser: one text parsed as a length in inches.                      *)
(***************************************************************************)
ParseInit ==
    /\ text \in Texts
    /\ parsed = None
    /\ StairIdle
    /\ FormatIdle
    /\ ViewIdle
    /\ SceneIdle
    /\ CanvasIdle
    /\ StoreIdle
    /\ MountIdle
    /\ ElevationIdle
    /\ PageIdle

ParseInches ==
    /\ parsed = None
    /\ parsed' = parseInches(text)
    /\ UNCHANGED text
    /\ UNCHANGED notParse

ParseNext == ParseInches

ParseSpec == ParseInit /\ [][ParseNext]_vars

(***************************************************************************)
(* The 3D view: the scene is built when the view mounts and whenever what  *)
(* it depends on changes; the calibrator is opened over it, clicked        *)
(* through and completed or skipped.                                       *)
(***************************************************************************)
ViewInit ==
    /\ backgroundImage \in BackgroundImages
    /\ isLoading = TRUE
    /\ error = Null
    /\ showCalibration = FALSE
    /\ calibrationData = Null
    /\ scene = Null
    /\ builtAfter = "none"
    /\ points = <<>>
    /\ currentStep = "floor"
    /\ floorY = Num(9, 10)
    /\ alert = Null
    /\ clickLog = <<>>
    /\ session = None
    /\ StairIdle
    /\ FormatIdle
    /\ ParseIdle
    /\ SceneIdle
    /\ CanvasIdle
    /\ StoreIdle
    /\ MountIdle
    /\ ElevationIdle
    /\ PageIdle

\* The view's effect: the scene held is disposed of, initScene runs to its
\* end. The calibrator's overlay is not up while it does.
BuildScene ==
    /\ ~showCalibration
    /\ LET r == initScene(backgroundImage, calibrationData)
       IN  /\ scene' = r.scene
           /\ error' = r.error
    /\ isLoading' = FALSE
    /\ builtAfter' = session.kind
    /\ UNCHANGED <<backgroundImage, showCalibration, calibrationData, points,
                   currentStep, floorY, alert, clickLog, session>>
    /\ UNCHANGED notView

\* CALIBRATE: shown for a photo, enabled once the scene is up.
OpenCalibration ==
    /\ backgroundImage # Null
    /\ ~isLoading
    /\ error = Null
    /\ ~showCalibration
    /\ showCalibration' = TRUE
    /\ CalibratorMounts
    /\ clickLog' = <<>>
    /\ session' = [kind |-> "open", emitted |-> Null, from |-> "floor"]
    /\ UNCHANGED <<backgroundImage, isLoading, error, calibrationData, scene,
                   builtAfter>>
    /\ UNCHANGED notView

HandleCanvasClick ==
    /\ showCalibration
    /\ Len(clickLog) < MaxClicks
    /\ \E c \in Clicks :
          IF currentStep = "floor"
          THEN /\ floorY' = c.y
               /\ clickLog' = Append(clickLog, [step |-> "floor", x |-> c.x, y |-> c.y])
               /\ UNCHANGED points
          ELSE IF currentStep = "reference"
          THEN /\ points' = Append(points, [x |-> c.x, y |-> c.y,
                                            label |-> PointLabel(Len(points) + 1)])
               /\ clickLog' = Append(clickLog, [step |-> "reference", x |-> c.x, y |-> c.y])
               /\ UNCHANGED floorY
          ELSE UNCHANGED <<points, floorY, clickLog>>
    /\ UNCHANGED <<backgroundImage, isLoading, error, showCalibration,
                   calibrationData, scene, builtAfter, currentStep, alert, session>>
    /\ UNCHANGED notView

\* NEXT: shown until the calibrator is done.
HandleNext ==
    /\ showCalibration
    /\ currentStep # "done"
    /\ IF currentStep = "floor"
       THEN /\ currentStep' = "reference"
            /\ UNCHANGED alert
       ELSE IF currentStep = "reference"
       THEN IF TooFewPoints(points)
            THEN /\ alert' = NEED_POINTS_ALERT
                 /\ UNCHANGED currentStep
            ELSE /\ currentStep' = "done"
                 /\ UNCHANGED alert
       ELSE UNCHANGED <<currentStep, alert>>
    /\ UNCHANGED <<backgroundImage, isLoading, error, showCalibration,
                   calibrationData, scene, builtAfter, points, floorY, clickLog,
                   session>>
    /\ UNCHANGED notView

\* COMPLETE shown in every step.
HandleCompleteAnyStep ==
    /\ showCalibration
    /\ LET data == handleComplete(points, floorY, ImageDimensions)
           kept == handleCalibrationComplete(data)
           r    == initScene(backgroundImage, kept)
       IN  /\ calibrationData' = kept
           /\ session' = [kind |-> "completed", emitted |-> data, from |-> currentStep]
           /\ scene' = r.scene
           /\ error' = r.error
    /\ isLoading' = FALSE
    /\ builtAfter' = "completed"
    /\ showCalibration' = FALSE
    /\ CalibratorMounts
    /\ UNCHANGED <<backgroundImage, clickLog>>
    /\ UNCHANGED notView

\* COMPLETE: shown when the calibrator is done. The data goes to the view,
\* which keeps it and takes the calibrator down; the view's effect depends on
\* the data kept and builds the scene anew.
HandleComplete ==
    /\ showCalibration
    /\ currentStep = "done"
    /\ LET data == handleComplete(points, floorY, ImageDimensions)
           kept == handleCalibrationComplete(data)
           r    == initScene(backgroundImage, kept)
       IN  /\ calibrationData' = kept
           /\ session' = [kind |-> "completed", emitted |-> data, from |-> currentStep]
           /\ scene' = r.scene
           /\ error' = r.error
    /\ isLoading' = FALSE
    /\ builtAfter' = "completed"
    /\ showCalibration' = FALSE
    /\ CalibratorMounts
    /\ UNCHANGED <<backgroundImage, clickLog>>
    /\ UNCHANGED notView

\* SKIP: always shown; the view takes the calibrator down.
Skip ==
    /\ showCalibration
    /\ showCalibration' = FALSE
    /\ session' = [kind |-> "skipped", emitted |-> session.emitted, from |-> currentStep]
    /\ CalibratorMounts
    /\ clickLog' = <<>>
    /\ UNCHANGED <<backgroundImage, isLoading, error, calibrationData, scene,
                   builtAfter>>
    /\ UNCHANGED notView

ViewNext ==
    \/ BuildScene
    \/ OpenCalibration
    \/ HandleCanvasClick
    \/ HandleNext
    \/ HandleComplete
    \/ Skip

ViewSpec == ViewInit /\ [][ViewNext]_vars

(***************************************************************************)
(* One scene from createStaircaseScene to dispose: its owner calls         *)
(* animate, the browser runs the callbacks requested, the window is        *)
(* resized, and the owner calls dispose.                                   *)
(***************************************************************************)
SceneInit ==
    /\ animationId = Undefined
    /\ scheduled = {}
    /\ requests = 0
    /\ animateCalls = 0
    /\ disposed = FALSE
    /\ resizeListening = TRUE
    /\ rendererSize \in ContainerSizes
    /\ ranAfterDispose = FALSE
    /\ StairIdle
    /\ FormatIdle
    /\ ParseIdle
    /\ ViewIdle
    /\ CanvasIdle
    /\ StoreIdle
    /\ MountIdle
    /\ ElevationIdle
    /\ PageIdle

\* animate(): the next frame is requested, its id kept in animationId, and
\* the scene is rendered.
Animate ==
    /\ ~disposed
    /\ requests < MaxRequests
    /\ requests' = requests + 1
    /\ animationId' = requests + 1
    /\ scheduled' = scheduled \cup {requests + 1}
    /\ animateCalls' = animateCalls + 1
    /\ UNCHANGED <<disposed, resizeListening, rendererSize, ranAfterDispose>>
    /\ UNCHANGED notScene

\* The browser runs a callback it holds: animate, which requests the next
\* frame and renders.
FrameTick ==
    /\ requests < MaxRequests
    /\ \E id \in scheduled :
          scheduled' = (scheduled \ {id}) \cup {requests + 1}
    /\ requests' = requests + 1
    /\ animationId' = requests + 1
    /\ ranAfterDispose' = (ranAfterDispose \/ disposed)
    /\ UNCHANGED <<animateCalls, disposed, resizeListening, rendererSize>>
    /\ UNCHANGED notScene

\* The window is resized: handleResize runs while it is registered.
Resize ==
    /\ \E size \in ContainerSizes :
          rendererSize' = IF resizeListening THEN size ELSE rendererSize
    /\ UNCHANGED <<animationId, scheduled, requests, animateCalls, disposed,
                   resizeListening, ranAfterDispose>>
    /\ UNCHANGED notScene

\* dispose(): the listener is removed, the request whose id animationId
\* holds is cancelled.
Dispose ==
    /\ ~disposed
    /\ disposed' = TRUE
    /\ resizeListening' = FALSE
    /\ scheduled' = scheduled \ {animationId}
    /\ UNCHANGED <<animationId, requests, animateCalls, rendererSize,
                   ranAfterDispose>>
    /\ UNCHANGED notScene

SceneNext == Animate \/ FrameTick \/ Resize \/ Dispose

SceneSpec == SceneInit /\ [][SceneNext]_vars

(***************************************************************************)
(* The 2D view: its effect draws the view chosen each time its props       *)
(* change; the routine called runs to its end or throws at one of its      *)
(* steps.                                                                  *)
(***************************************************************************)
CanvasInit ==
    /\ viewType \in ViewTypes
    /\ raster = <<>>
    /\ consoleErrors = <<>>
    /\ lastDraw = None
    /\ StairIdle
    /\ FormatIdle
    /\ ParseIdle
    /\ ViewIdle
    /\ SceneIdle
    /\ StoreIdle
    /\ MountIdle
    /\ ElevationIdle
    /\ PageIdle

\* The routine runs to its end.
DrawView ==
    /\ \E view \in ViewTypes :
          /\ viewType' = view
          /\ raster' = Paint(raster, view, Len(DrawSteps(view)))
          /\ lastDraw' = [kind |-> "drawn", view |-> view,
                          done |-> Len(DrawSteps(view)), before |-> raster]
    /\ UNCHANGED consoleErrors
    /\ UNCHANGED notCanvas

\* The routine throws at a step, the steps before it done: the effect
\* catches the error and logs it.
DrawViewThrows ==
    /\ Len(consoleErrors) < MaxDrawErrors
    /\ \E view \in ViewTypes :
          \E failAt \in 1..Len(DrawSteps(view)) :
              /\ viewType' = view
              /\ raster' = Paint(raster, view, failAt - 1)
              /\ lastDraw' = [kind |-> "threw", view |-> view,
                              done |-> failAt - 1, before |-> raster]
    /\ consoleErrors' = Append(consoleErrors, "Error rendering 2D view:")
    /\ UNCHANGED notCanvas

CanvasNext == DrawView \/ DrawViewThrows

CanvasSpec == CanvasInit /\ [][CanvasNext]_vars

(***************************************************************************)
(* The image store: saveImage calls, each an async function that gives way *)
(* at every await, so that the steps of two calls may alternate.           *)
(***************************************************************************)
StoreInit ==
    /\ \E count \in InitialCounts :
          /\ store = InitialStore(count)
          /\ clock = count
    /\ calls = <<>>
    /\ overlapped = FALSE
    /\ StairIdle
    /\ FormatIdle
    /\ ParseIdle
    /\ ViewIdle
    /\ SceneIdle
    /\ CanvasIdle
    /\ MountIdle
    /\ ElevationIdle
    /\ PageIdle

\* saveImage(jobId, file) is called and awaits the database.
StartSave ==
    /\ Len(calls) < MaxSaves
    /\ \E jobId \in JobIds :
          calls' = Append(calls, [jobId |-> jobId, pc |-> "read",
                                  existing |-> <<>>, toDelete |-> <<>>,
                                  deleted |-> <<>>])
    /\ overlapped' = (overlapped \/ \E i \in 1..Len(calls) : InFlight(calls[i]))
    /\ UNCHANGED <<store, clock>>
    /\ UNCHANGED notStore

\* The job's images are read, and the ones to delete are picked.
ReadExisting ==
    /\ \E i \in 1..Len(calls) :
          /\ calls[i].pc = "read"
          /\ LET existingImages == getAllFromIndex(store, calls[i].jobId)
                 toDelete == ToDelete(existingImages)
             IN  calls' = [calls EXCEPT ![i] =
                     [@ EXCEPT !.existing = existingImages,
                               !.toDelete = toDelete,
                               !.pc = IF toDelete = <<>> THEN "resize" ELSE "evict"]]
    /\ UNCHANGED <<store, clock, overlapped>>
    /\ UNCHANGED notStore

\* One turn of the loop: db.delete of the next image to delete.
DeleteImage ==
    /\ \E i \in 1..Len(calls) :
          /\ calls[i].pc = "evict"
          /\ LET img == Head(calls[i].toDelete)
             IN  /\ store' = {r \in store : r.id # img.id}
                 /\ calls' = [calls EXCEPT ![i] =
                        [@ EXCEPT !.toDelete = Tail(@),
                                  !.deleted = Append(@, img),
                                  !.pc = IF Tail(calls[i].toDelete) = <<>>
                                         THEN "resize" ELSE "evict"]]
    /\ UNCHANGED <<clock, overlapped>>
    /\ UNCHANGED notStore

\* resizeImage and getImageDimensions: the file is resized, or it does not
\* load and saveImage throws.
ResizeImage ==
    /\ \E i \in 1..Len(calls) :
          /\ calls[i].pc = "resize"
          /\ \E loads \in BOOLEAN :
                calls' = [calls EXCEPT ![i].pc = IF loads THEN "add" ELSE "failed"]
    /\ UNCHANGED <<store, clock, overlapped>>
    /\ UNCHANGED notStore

\* The record is made, with a new id and the time of the clock, and added.
AddRecord ==
    /\ \E i \in 1..Len(calls) :
          /\ calls[i].pc = "add"
          /\ store' = store \cup {[id |-> clock + 1, jobId |-> calls[i].jobId,
                                   uploadedAt |-> clock + 1]}
          /\ calls' = [calls EXCEPT ![i].pc = "done"]
    /\ clock' = clock + 1
    /\ UNCHANGED overlapped
    /\ UNCHANGED notStore

StoreNext == StartSave \/ ReadExisting \/ DeleteImage \/ ResizeImage \/ AddRecord

StoreSpec == StoreInit /\ [][StoreNext]_vars

(***************************************************************************)
(* The 3D view from mount to unmount. Each run of its effect calls          *)
(* initScene, an async function that gives way while the photo loads; the      *)
(* effect's cleanup runs before the next run and at unmount.                *)
(***************************************************************************)
MountInit ==
    /\ backgroundImage \in BackgroundImages
    /\ isLoading = TRUE
    /\ error = Null
    /\ showCalibration = FALSE
    /\ calibrationData = Null
    /\ scene = Null
    /\ builtAfter = "none"
    /\ points = <<>>
    /\ currentStep = "floor"
    /\ floorY = Num(9, 10)
    /\ alert = Null
    /\ clickLog = <<>>
    /\ session = None
    /\ MountIdle
    /\ StairIdle
    /\ FormatIdle
    /\ ParseIdle
    /\ SceneIdle
    /\ CanvasIdle
    /\ StoreIdle
    /\ ElevationIdle
    /\ PageIdle

\* One run of the effect for the photo and the data given, the cleanup of the
\* run before it done first: with no photo initScene runs to its end, with
\* one it waits for loadImage.
RunEffect(file, data) ==
    LET cleaned == Cleanup(scenes, sceneRef)
        run     == effectRuns + 1
    IN  /\ effectRuns' = run
        /\ error' = Null
        /\ IF file # Null
           THEN /\ initScenes' = initScenes \cup {[run |-> run, file |-> file, data |-> data]}
                /\ scenes' = cleaned
                /\ sceneRef' = 0
                /\ isLoading' = TRUE
           ELSE /\ initScenes' = initScenes
                /\ scenes' = Append(cleaned,
                       SceneOf(createStaircaseScene(StairDimensions, Undefined,
                                   IF data # Null THEN data ELSE Undefined), run))
                /\ sceneRef' = Len(cleaned) + 1
                /\ isLoading' = FALSE

\* The view mounts: the effect runs for the first time; the wood type's
\* effect, which runs after it, finds the colour it would set.
Mount ==
    /\ phase = "rendered"
    /\ phase' = "mounted"
    /\ RunEffect(backgroundImage, calibrationData)
    /\ UNCHANGED <<backgroundImage, calibrationData, woodType>>
    /\ UNCHANGED calibratorVars
    /\ UNCHANGED notMount

\* Something the effect depends on changes: a prop at any time, the
\* calibration data when a calibration is completed (the button is there for
\* a photo, enabled once the scene is up), the position and the rotation by
\* the controls shown once there is calibration data.
ChangeDependency ==
    /\ phase = "mounted"
    /\ effectRuns < MaxEffectRuns
    /\ \E dep \in Dependencies :
          /\ dep = "calibrationData"
                => (backgroundImage # Null /\ ~isLoading /\ error = Null)
          /\ dep \in {"stairPosition", "stairRotation"} => calibrationData # Null
          /\ \E file \in BackgroundImages :
                /\ IF dep = "backgroundImage" THEN file # backgroundImage
                   ELSE file = backgroundImage
                /\ LET data == IF dep = "calibrationData" THEN SampleCalibration
                               ELSE calibrationData
                   IN  /\ backgroundImage' = file
                       /\ calibrationData' = data
                       /\ RunEffect(file, data)
    /\ UNCHANGED <<phase, woodType>>
    /\ UNCHANGED calibratorVars
    /\ UNCHANGED notMount

\* loadImage resolves for an initScene call that waits: the call creates its
\* scene, puts it in the ref and starts its loop.
LoadResolves ==
    /\ \E c \in initScenes :
          /\ c.file.decodes
          /\ initScenes' = initScenes \ {c}
          /\ scenes' = Append(scenes,
                 SceneOf(createStaircaseScene(StairDimensions, [image |-> c.file],
                             IF c.data # Null THEN c.data ELSE Undefined), c.run))
          /\ sceneRef' = Len(scenes) + 1
    /\ isLoading' = IF phase = "mounted" THEN FALSE ELSE isLoading
    /\ UNCHANGED <<phase, woodType, effectRuns, backgroundImage, error,
                   calibrationData>>
    /\ UNCHANGED calibratorVars
    /\ UNCHANGED notMount

\* loadImage rejects: the call catches the error and shows it.
LoadRejects ==
    /\ \E c \in initScenes :
          /\ ~c.file.decodes
          /\ initScenes' = initScenes \ {c}
    /\ error' = IF phase = "mounted"
                THEN [message |-> "Failed to load background image"] ELSE error
    /\ isLoading' = IF phase = "mounted" THEN FALSE ELSE isLoading
    /\ UNCHANGED <<phase, woodType, effectRuns, backgroundImage, calibrationData,
                   sceneRef, scenes>>
    /\ UNCHANGED calibratorVars
    /\ UNCHANGED notMount

\* Another wood type is selected: its effect updates the scene the ref
\* holds, if it holds one.
SetWoodType ==
    /\ phase = "mounted"
    /\ \E wood \in WoodTypes \ {woodType} :
          /\ woodType' = wood
          /\ scenes' = IF sceneRef # 0
                       THEN [scenes EXCEPT ![sceneRef].controls =
                                updateWoodType(@, wood)]
                       ELSE scenes
    /\ UNCHANGED <<phase, sceneRef, initScenes, effectRuns, backgroundImage,
                   isLoading, error, calibrationData>>
    /\ UNCHANGED calibratorVars
    /\ UNCHANGED notMount

\* The view unmounts: the cleanup of the last run.
Unmount ==
    /\ phase = "mounted"
    /\ phase' = "unmounted"
    /\ scenes' = Cleanup(scenes, sceneRef)
    /\ sceneRef' = 0
    /\ UNCHANGED <<woodType, initScenes, effectRuns, backgroundImage, isLoading,
                   error, calibrationData>>
    /\ UNCHANGED calibratorVars
    /\ UNCHANGED notMount

MountNext ==
    \/ Mount
    \/ ChangeDependency
    \/ LoadResolves
    \/ LoadRejects
    \/ SetWoodType
    \/ Unmount

MountSpec == MountInit /\ [][MountNext]_vars

(***************************************************************************)
(* The side elevation: one layout drawn on the 2D view's canvas.           *)
(***************************************************************************)
ElevationInit ==
    /\ elevationData \in ElevationLayouts
    /\ drawing = None
    /\ StairIdle
    /\ FormatIdle
    /\ ParseIdle
    /\ ViewIdle
    /\ SceneIdle
    /\ CanvasIdle
    /\ StoreIdle
    /\ MountIdle
    /\ PageIdle

DrawSideElevation ==
    /\ drawing = None
    /\ drawing' = drawSideElevation(elevationData, CanvasHeight)
    /\ UNCHANGED elevationData
    /\ UNCHANGED notElevation

ElevationNext == DrawSideElevation

ElevationSpec == ElevationInit /\ [][ElevationNext]_vars

(***************************************************************************)
(* The page: the result is worked out from the fields entered, and a view  *)
(* of it is chosen and rendered.                                           *)
(***************************************************************************)
PageInit ==
    /\ fields \in PageFields
    /\ result = None
    /\ activeRenderView = "none"
    /\ rendering = None
    /\ uploadedImage = Null
    /\ loadJobs = <<>>
    /\ completed = <<>>
    /\ jobs = <<>>
    /\ imageStore = <<>>
    /\ StairIdle
    /\ FormatIdle
    /\ ParseIdle
    /\ ViewIdle
    /\ SceneIdle
    /\ CanvasIdle
    /\ StoreIdle
    /\ MountIdle
    /\ ElevationIdle

\* The page renders: the result is worked out.
EvaluateResult ==
    /\ result = None
    /\ result' = Result(fields)
    /\ UNCHANGED <<fields, activeRenderView, rendering, uploadedImage, loadJobs,
                   completed, jobs, imageStore>>
    /\ UNCHANGED notPage

\* A view is chosen, which the page offers for a result that is ok: the 3D
\* view builds the geometry, the 2D view draws the side elevation.
ShowView ==
    /\ result # None
    /\ result.ok
    /\ rendering = None
    /\ \E view \in {"2d", "3d"} :
          /\ activeRenderView' = view
          /\ rendering' =
                IF view = "3d"
                THEN buildStaircaseGeometry(result.out, result.mat,
                                            result.stairWidthIn)
                ELSE drawSideElevation(result.out, CanvasHeight)
    /\ UNCHANGED <<fields, result, uploadedImage, loadJobs, completed, jobs,
                   imageStore>>
    /\ UNCHANGED notPage

PageNext == EvaluateResult \/ ShowView

PageSpec == PageInit /\ [][PageNext]_vars

(***************************************************************************)
(* The page: jobs are saved and loaded. The total rise is edited, a photo  *)
(* is uploaded, a view is chosen; saveJob keeps the fields, the photo and  *)
(* the view; loadJob sets the fields at once and, for a job with an image, *)
(* the photo and the view only after getImage has settled, so that other   *)
(* handlers run in between.                                                *)
(***************************************************************************)
JobInit ==
    /\ fields = InitialFields
    /\ result = None
    /\ activeRenderView = "none"
    /\ rendering = None
    /\ uploadedImage = Null
    /\ loadJobs = <<>>
    /\ completed = <<>>
    /\ jobs = <<>>
    /\ imageStore = <<>>
    /\ StairIdle
    /\ FormatIdle
    /\ ParseIdle
    /\ ViewIdle
    /\ SceneIdle
    /\ CanvasIdle
    /\ StoreIdle
    /\ MountIdle
    /\ ElevationIdle

\* The job saved under an id: ids are given in the order of saving, and new
\* jobs are put in front.
JobOf(id) == jobs[Len(jobs) - id + 1]

EditTotalRise ==
    /\ \E t \in TotalRiseEdits : fields' = [fields EXCEPT !.totalRise = t]
    /\ UNCHANGED <<result, activeRenderView, rendering, uploadedImage, loadJobs,
                   completed, jobs, imageStore>>
    /\ UNCHANGED notPage

UploadImage ==
    /\ \E file \in Photos : uploadedImage' = file
    /\ UNCHANGED <<fields, result, activeRenderView, rendering, loadJobs,
                   completed, jobs, imageStore>>
    /\ UNCHANGED notPage

SetActiveRenderView ==
    /\ \E view \in {"none", "2d", "3d"} : activeRenderView' = view
    /\ UNCHANGED <<fields, result, rendering, uploadedImage, loadJobs,
                   completed, jobs, imageStore>>
    /\ UNCHANGED notPage

\* saveJob, offered for fields whose result is ok, as it is for every
\* total rise entered here: saveImage stores the photo and returns its id,
\* or throws and the job is saved without one.
SaveJob ==
    /\ Len(jobs) < MaxJobs
    /\ LET id == Len(jobs) + 1
       IN  \E stored \in BOOLEAN :
              IF uploadedImage # Null /\ stored
              THEN LET imageId == [image |-> Len(imageStore) + 1]
                   IN  /\ imageStore' = Append(imageStore,
                                           ImageRecord(imageId, id, uploadedImage))
                       /\ jobs' = <<SavedJob(id, fields, imageId, activeRenderView)>>
                                    \o jobs
              ELSE /\ uploadedImage # Null \/ ~stored
                   /\ jobs' = <<SavedJob(id, fields, Undefined, activeRenderView)>>
                                \o jobs
                   /\ UNCHANGED imageStore
    /\ UNCHANGED <<fields, result, activeRenderView, rendering, uploadedImage,
                   loadJobs, completed>>
    /\ UNCHANGED notPage

\* loadJob up to its await: the fields are set; a job without an image has
\* the photo cleared and the view set, and the call is over.
LoadJob ==
    /\ Len(loadJobs) + Len(completed) < MaxLoads
    /\ \E i \in 1..Len(jobs) :
          LET j == jobs[i]
          IN  /\ fields' = LoadedFields(j)
              /\ IF j.imageId # Undefined
                 THEN /\ loadJobs' = Append(loadJobs, j.id)
                      /\ UNCHANGED <<uploadedImage, activeRenderView, completed>>
                 ELSE /\ uploadedImage' = Null
                      /\ activeRenderView' = LoadedView(j)
                      /\ completed' = Append(completed, j.id)
                      /\ UNCHANGED loadJobs
    /\ UNCHANGED <<result, rendering, jobs, imageStore>>
    /\ UNCHANGED notPage

\* The loadJob calls waiting but the k-th.
OtherLoads(k) == SubSeq(loadJobs, 1, k - 1) \o SubSeq(loadJobs, k + 1, Len(loadJobs))

\* getImage returns to a loadJob call: the photo is set when there is a
\* blob, the view is set, and the call is over.
GetImageReturns ==
    /\ \E k \in 1..Len(loadJobs) :
          LET j    == JobOf(loadJobs[k])
              blob == getImage(imageStore, j.imageId)
          IN  /\ uploadedImage' = IF blob # Null THEN SavedImageFile(blob)
                                  ELSE uploadedImage
              /\ activeRenderView' = LoadedView(j)
              /\ completed' = Append(completed, j.id)
              /\ loadJobs' = OtherLoads(k)
    /\ UNCHANGED <<fields, result, rendering, jobs, imageStore>>
    /\ UNCHANGED notPage

\* getImage throws in a loadJob call: the error is logged, the view is set,
\* and the call is over.
GetImageThrows ==
    /\ \E k \in 1..Len(loadJobs) :
          LET j == JobOf(loadJobs[k])
          IN  /\ activeRenderView' = LoadedView(j)
              /\ completed' = Append(completed, j.id)
              /\ loadJobs' = OtherLoads(k)
    /\ UNCHANGED <<fields, result, rendering, uploadedImage, jobs, imageStore>>
    /\ UNCHANGED notPage

JobNext ==
    \/ EditTotalRise
    \/ UploadImage
    \/ SetActiveRenderView
    \/ SaveJob
    \/ LoadJob
    \/ GetImageReturns
    \/ GetImageThrows

JobSpec == JobInit /\ [][JobNext]_vars

(***************************************************************************)
(* Properties                                                              *)
(***************************************************************************)
\* The layout, once calcStairs has returned one, and the target riser the
\* call worked with (7.25 when none was given).
Layout == out.value

TargetOf(in) ==
    IF in.targetRiserIn = Undefined THEN Num(29, 4) ELSE in.targetRiserIn

PositiveInput ==
    /\ Gt(input.totalRiseIn, Whole(0))
    /\ Gt(input.treadRunIn, Whole(0))

\* |a - b| <= 1/2
WithinHalf(a, b) ==
    /\ Le(Sub(a, b), Num(1, 2))
    /\ Le(Sub(b, a), Num(1, 2))

\* C1: for totalRiseIn > 0, treadRunIn > 0 and targetRiserIn > 0 the layout
\* returned has numRisers * exactRiserIn = totalRiseIn and numRisers >= 2.
C1_RisersDivideTotalRise ==
    (out.kind = "return" /\ PositiveInput /\ Gt(TargetOf(input), Whole(0)))
    => /\ NumEq(Mul(Layout.numRisers, Layout.exactRiserIn), input.totalRiseIn)
       /\ Ge(Layout.numRisers, Whole(2))

\* A layout of more than two risers whose riser height is no whole number.
C1_Witness ==
    /\ out.kind = "return"
    /\ Gt(TargetOf(input), Whole(0))
    /\ Gt(Layout.numRisers, Whole(2))
    /\ ~IsInteger(Layout.exactRiserIn)

\* C2: for totalRiseIn > 0 and targetRiserIn > 0, numRisers is the integer
\* closest to totalRiseIn/targetRiserIn, or 2 when that integer is below 2;
\* 109.5 / 10 / 7.25 gives 15 risers, 14 treads and a total run of 140.
C2_ClosestRiserCount ==
    (out.kind = "return" /\ PositiveInput /\ Gt(TargetOf(input), Whole(0)))
    => LET raw == Div(input.totalRiseIn, TargetOf(input))
       IN  /\ IsInteger(Layout.numRisers)
           /\ IF Lt(raw, Num(3, 2))
              THEN Layout.numRisers = Whole(2)
              ELSE WithinHalf(Layout.numRisers, raw)
           /\ (/\ input.totalRiseIn = Num(219, 2)
               /\ input.treadRunIn = Whole(10)
               /\ input.targetRiserIn = Num(29, 4))
              => /\ Layout.numRisers = Whole(15)
                 /\ Layout.numTreads = Whole(14)
                 /\ Layout.totalRunIn = Whole(140)

\* The layout of the example: 109.5 / 10 / 7.25.
C2_Witness ==
    /\ out.kind = "return"
    /\ input.totalRiseIn = Num(219, 2)
    /\ input.treadRunIn = Whole(10)
    /\ input.targetRiserIn = Num(29, 4)
    /\ Layout.numRisers = Whole(15)

\* C3: every layout returned has numTreads = numRisers - 1 and
\* totalRunIn = numTreads * treadRunIn, treadRunIn being the input's.
C3_TreadsAndRun ==
    out.kind = "return"
    => /\ NumEq(Layout.numTreads, Sub(Layout.numRisers, Whole(1)))
       /\ NumEq(Layout.totalRunIn, Mul(Layout.numTreads, Layout.treadRunIn))
       /\ Layout.treadRunIn = input.treadRunIn

\* A layout of 14 treads of 7 inches.
C3_Witness ==
    /\ out.kind = "return"
    /\ Layout.numTreads = Whole(14)
    /\ Layout.treadRunIn = Whole(7)
    /\ Layout.totalRunIn = Whole(98)

\* C4: every layout returned has
\* remainingMeatIn = 11.25 - exactRiserIn - treadRunIn, and meatPass is true
\* exactly when remainingMeatIn >= 3.5.
C4_MeatCheck ==
    out.kind = "return"
    => /\ NumEq(Layout.remainingMeatIn,
                Sub(Sub(Num(45, 4), Layout.exactRiserIn), Layout.treadRunIn))
       /\ Layout.meatPass <=> Ge(Layout.remainingMeatIn, Num(7, 2))

\* A layout with exactly 3.5 inches of meat left, which passes.
C4_Witness ==
    /\ out.kind = "return"
    /\ Layout.remainingMeatIn = Num(7, 2)
    /\ Layout.meatPass

\* C5: for totalRiseIn > 0 and treadRunIn > 0 calcStairs returns a layout,
\* whose warnings are, in this order and nothing else, the riser warning iff
\* exactRiserIn > 7.75, the tread-run warning iff treadRunIn < 10 and the
\* meat warning iff meatPass is false.
C5_WarningsOnly ==
    (out # None /\ PositiveInput)
    => /\ out.kind = "return"
       /\ Layout.warnings =
            (IF Gt(Layout.exactRiserIn, Num(31, 4))
             THEN <<RISER_WARNING>> ELSE <<>>)
            \o (IF Lt(Layout.treadRunIn, Whole(10))
                THEN <<TREAD_WARNING>> ELSE <<>>)
            \o (IF Layout.meatPass THEN <<>> ELSE <<MEAT_WARNING>>)

\* A layout returned with all three warnings.
C5_Witness ==
    /\ out.kind = "return"
    /\ Layout.warnings = <<RISER_WARNING, TREAD_WARNING, MEAT_WARNING>>

\* C6: calcStairs throws, and returns no layout, for every input whose
\* totalRiseIn is not > 0 or whose treadRunIn is not > 0.
C6_RejectsNonPositive ==
    (out # None /\ ~PositiveInput)
    => /\ out.kind = "throw"
       /\ out.message \in {"Total rise must be > 0", "Tread run must be > 0"}

\* A call rejected for its tread run alone.
C6_Witness ==
    /\ out.kind = "throw"
    /\ Gt(input.totalRiseIn, Whole(0))
    /\ ~Gt(input.treadRunIn, Whole(0))

\* C7: numStringers >= 2 for every input, numStringers >= 3 whenever
\* stairWidthIn <= 36, whatever stringerOcin is, and above these floors the
\* count is ceil(stairWidthIn / stringerOcin) + 1.
C7_StringerFloors ==
    mat # None
    => LET count == Add(MathCeil(Div(m.stairWidthIn, m.stringerOcin)), Whole(1))
           floor == IF Le(m.stairWidthIn, Whole(36)) THEN Whole(3) ELSE Whole(2)
       IN  /\ Ge(mat.numStringers, Whole(2))
           /\ Le(m.stairWidthIn, Whole(36)) => Ge(mat.numStringers, Whole(3))
           /\ Gt(count, floor) => mat.numStringers = count

\* C8: suggestedStockLenFt is the smallest catalog entry >= stringerLenIn/12,
\* and ceil(stringerLenIn/12) when no entry is long enough; hence
\* suggestedStockLenFt * 12 >= stringerLenIn.
C8_SmallestStock ==
    mat # None
    => LET neededFt == Div(m.stringerLenIn, Whole(12))
           catalog  == {Whole(ft) : ft \in {8, 10, 12, 14, 16, 18, 20}}
           fits     == {ft \in catalog : Ge(ft, neededFt)}
           stock    == mat.suggestedStockLenFt
       IN  /\ fits # {} => /\ stock \in fits
                           /\ \A ft \in fits : Le(stock, ft)
           /\ fits = {} => /\ IsInteger(stock)
                           /\ Ge(stock, neededFt)
                           /\ Lt(Sub(stock, Whole(1)), neededFt)
           /\ Ge(Mul(stock, Whole(12)), m.stringerLenIn)

\* A stringer of 250 inches, longer than the whole catalog: 21 ft.
C8_Witness ==
    /\ mat # None
    /\ m.stringerLenIn = Whole(250)
    /\ mat.suggestedStockLenFt = Whole(21)

\* The path the claim describes for a stringer at xPos.
ExpectedPath(xPos, layout) ==
    LET numTreads == layout.numTreads.n
    IN  [j \in 1..(2 * numTreads + 2) |->
            IF j = 1 THEN Vector3(xPos, Whole(0), Whole(0))
            ELSE IF j = 2 * numTreads + 2
            THEN Vector3(xPos, Mul(layout.numRisers, layout.exactRiserIn),
                         layout.totalRunIn)
            ELSE LET k == (j - 2) \div 2
                 IN  IF j % 2 = 0
                     THEN Vector3(xPos, Mul(Whole(k + 1), layout.exactRiserIn),
                                  Mul(Whole(k), layout.treadRunIn))
                     ELSE Vector3(xPos, Mul(Whole(k + 1), layout.exactRiserIn),
                                  Mul(Whole(k + 1), layout.treadRunIn))]

\* C9: the geometry returned has one vertex path per stringer (numStringers
\* paths), each of 2 * numTreads + 2 vertices: the bottom origin, for each
\* tread the riser-top point then the tread-back point, the top landing.
C9_StringerPaths ==
    geometry.kind = "return"
    => /\ Whole(Len(geometry.value.stringers)) = mat.numStringers
       /\ \A i \in 1..Len(geometry.value.stringers) :
            LET path == geometry.value.stringers[i]
            IN  /\ Len(path) = 2 * Layout.numTreads.n + 2
                /\ path = ExpectedPath(path[1].x, Layout)
                /\ path[1].y = Whole(0)
                /\ path[1].z = Whole(0)

\* C9 for a whole number of stringers: the paths are as the claim says.
C9_PathsOfWholeCount ==
    (geometry.kind = "return" /\ IsInteger(mat.numStringers))
    => /\ Len(geometry.value.stringers) = mat.numStringers.n
       /\ \A i \in 1..Len(geometry.value.stringers) :
            geometry.value.stringers[i] =
                ExpectedPath(Div(Mul(Whole(i - 1), m.stairWidthIn),
                                 Sub(mat.numStringers, Whole(1))), Layout)

\* C10: the geometry's risers list has one 4-vertex rectangle per riser when
\* the stair is closed and is empty when it is open, as risersQty has it
\* (numRisers if closed, else 0).
C10_RisersForClosedOnly ==
    geometry.kind = "return"
    => /\ mat.risersQty = (IF m.closedStair THEN Layout.numRisers ELSE Whole(0))
       /\ Whole(Len(geometry.value.risers)) = mat.risersQty
       /\ \A k \in 1..Len(geometry.value.risers) :
            Len(geometry.value.risers[k]) = 4

AbsNum(x) == IF x.n < 0 THEN Neg(x) ELSE x

\* The number a reader takes from a rendering "W", "N/D" or "W N/D" with
\* 0 < N < D in lowest terms: W + N/D, a leading "-" negating all of it (as
\* toFeetInches writes a negative length). ok is FALSE for any other string.
ReadMixed(s) ==
    LET sg    == IF Len(s) > 0 /\ s[1] = "-" THEN 1 ELSE 0
        a     == Run(s, sg + 1, DigitSet)
        e     == sg + a
        first == DigitsValue(SubSeq(s, sg + 1, e))
        b     == Run(s, e + 2, DigitSet)
        e2    == e + 1 + b
        second == DigitsValue(SubSeq(s, e + 2, e2))
        c     == Run(s, e2 + 2, DigitSet)
        third == DigitsValue(SubSeq(s, e2 + 2, e2 + 1 + c))
        sign  == IF sg = 1 THEN 0 - 1 ELSE 1
        bad   == [ok |-> FALSE, value |-> NaN]
        Proper(n, d) == 0 < n /\ n < d /\ Gcd(n, d) = 1
    IN  IF a = 0 THEN bad
        ELSE IF e = Len(s) THEN [ok |-> TRUE, value |-> Whole(sign * first)]
        ELSE IF s[e + 1] = "/" /\ b > 0 /\ e2 = Len(s) /\ Proper(first, second)
             THEN [ok |-> TRUE, value |-> Num(sign * first, second)]
        ELSE IF s[e + 1] = " " /\ b > 0 /\ e2 < Len(s) /\ s[e2 + 1] = "/"
                /\ c > 0 /\ e2 + 1 + c = Len(s) /\ Proper(second, third)
             THEN [ok |-> TRUE,
                   value |-> Num(sign * (first * third + second), third)]
        ELSE bad

\* The rendering is of one of the three forms and reads as the multiple of
\* 1/denom nearest to the value.
NearestMultiple(v, denom, s) ==
    LET r == ReadMixed(s)
    IN  /\ r.ok
        /\ IsInteger(Mul(r.value, denom))
        /\ Le(AbsNum(Sub(r.value, v)), Div(Whole(1), Mul(Whole(2), denom)))

\* C11: toFraction(v, denom) renders the multiple of 1/denom nearest to v as
\* "W", "N/D" or "W N/D" with 0 < N < D in lowest terms, for every value v;
\* 7.96875 at 16 renders "8" and 7.3125 renders "7 5/16".
C11_NearestMultiple ==
    rendered.kind = "return" =>
        /\ NearestMultiple(value.valueIn, value.denom, rendered.value)
        /\ (value = [valueIn |-> Num(255, 32), denom |-> Whole(16)]
                => rendered.value = <<"8">>)
        /\ (value = [valueIn |-> Num(117, 16), denom |-> Whole(16)]
                => rendered.value = <<"7", " ", "5", "/", "1", "6">>)

\* C11 for the values that are not negative: the rendering is as the claim
\* says.
C11_NearestOfNonNegative ==
    (rendered.kind = "return" /\ Ge(value.valueIn, Whole(0))) =>
        /\ NearestMultiple(value.valueIn, value.denom, rendered.value)
        /\ (value = [valueIn |-> Num(255, 32), denom |-> Whole(16)]
                => rendered.value = <<"8">>)
        /\ (value = [valueIn |-> Num(117, 16), denom |-> Whole(16)]
                => rendered.value = <<"7", " ", "5", "/", "1", "6">>)


\* 12 F + W + N/D for a composition, a part that is absent counting 0.
ExpectedInches(c) ==
    Add(Mul(Whole(12), Nullish(c.feet, Whole(0))),
        Add(Nullish(c.whole, Whole(0)),
            IF c.frac = Undefined THEN Whole(0) ELSE Num(c.frac.n, c.frac.d)))

ZeroDenominator(c) == c.frac # Undefined /\ c.frac.d = 0

HasLength(c) == c.feet # Undefined \/ c.whole # Undefined \/ c.frac # Undefined

\* C12: parseInches returns 12 F + W + N/D for F' followed by optional whole
\* inches W and an optional fraction N/D, the number itself for a bare
\* integer or decimal, and the same for "W-N/D" as for "W N/D";
\* "9' 1 1/2" gives 109.5 and "17/64" gives 0.265625.
C12_ParsedLength ==
    parsed # None =>
        /\ \A c \in Compositions :
              (text = Compose(c) /\ HasLength(c) /\ ~ZeroDenominator(c))
                  => parsed = Returned(ExpectedInches(c))
        /\ \A c \in DecimalCompositions :
              text = ComposeDecimal(c)
                  => parsed = Returned(
                        IF c.sign = <<"-">>
                        THEN Neg(Add(Whole(c.int), c.decimals.value))
                        ELSE Add(Whole(c.int), c.decimals.value))
        /\ \A c \in Compositions :
              (text = Compose(c) /\ c.joiner = <<"-">>)
                  => parsed = parseInches(Compose([c EXCEPT !.joiner = <<" ">>]))
        /\ (text = <<"9", "'", " ", "1", " ", "1", "/", "2">>
                => parsed = Returned(Num(219, 2)))
        /\ (text = <<"1", "7", "/", "6", "4">>
                => parsed = Returned(Num(265625, 1000000)))

\* "9' 1-1/2" has been parsed.
C12_Witness ==
    /\ text = <<"9", "'", " ", "1", "-", "1", "/", "2">>
    /\ parsed = Returned(Num(219, 2))

\* C13: parseInches throws a parse error on empty and white-space-only input
\* and on input of no recognized form, and throws the invalid-fraction error
\* on every mixed or pure fraction with denominator zero.
C13_RejectsBadInput ==
    parsed # None =>
        /\ (text \in BlankTexts \cup UnrecognizedTexts
                => /\ parsed.kind = "throw"
                   /\ parsed.message \in {"Empty input", "Unrecognized format"})
        /\ \A c \in Compositions :
              (text = Compose(c) /\ ZeroDenominator(c))
                  => parsed = Thrown("Invalid fraction")

\* C13 without the texts of no recognized form: blank input and a zero
\* denominator are rejected as the claim says.
C13_RejectsBlankAndZeroDenominator ==
    parsed # None =>
        /\ (text \in BlankTexts => parsed = Thrown("Empty input"))
        /\ \A c \in Compositions :
              (text = Compose(c) /\ ZeroDenominator(c))
                  => parsed = Thrown("Invalid fraction")

\* Of the texts of no recognized form, parseInches accepts these four only.
C13_AcceptedTexts ==
    (parsed # None /\ text \in UnrecognizedTexts /\ parsed.kind = "return")
        => text \in {<<"a", "b", "c">>, <<"\"">>, <<"-", "-">>, <<"i", "n">>}


\* The clicks of the session made in a step.
ClicksIn(step) == SelectSeq(clickLog, LAMBDA c : c.step = step)

\* C14: in the reference step NEXT with fewer than 2 points shows the
\* validation alert and changes neither the step, nor the points, nor floorY;
\* with 2 points or more it moves to done, and nothing else moves to done.
C14_NextNeedsTwoPoints ==
    [][/\ (HandleNext /\ currentStep = "reference" /\ Len(points) < 2)
            => /\ currentStep' = "reference"
               /\ points' = points
               /\ floorY' = floorY
               /\ alert' = NEED_POINTS_ALERT
       /\ (HandleNext /\ currentStep = "reference" /\ Len(points) >= 2)
            => currentStep' = "done"
       /\ (currentStep # "done" /\ currentStep' = "done")
            => (currentStep = "reference" /\ Len(points) >= 2)]_vars

\* NEXT has failed with one reference point marked.
C14_Witness ==
    /\ showCalibration
    /\ currentStep = "reference"
    /\ Len(points) = 1
    /\ alert = NEED_POINTS_ALERT

\* A layout without the two risers the finish offsets adjust.
WithoutFinish(o) ==
    [f \in DOMAIN o \ {"firstRiserIn", "lastRiserIn"} |-> o[f]]

\* The input with other finish offsets.
WithOffsets(in, top, bottom) ==
    [in EXCEPT !.topFinishIn = top, !.bottomFinishIn = bottom]

\* C28: with finishMode false calcStairs returns firstRiserIn = lastRiserIn
\* = exactRiserIn, and calls that differ only in the finish offsets return
\* the same layout; with finishMode true firstRiserIn = exactRiserIn +
\* bottomFinishIn, lastRiserIn = exactRiserIn - topFinishIn, and no other
\* field of the layout depends on the offsets.
C28_FinishOffsets ==
    (out # None /\ out.kind = "return") =>
        LET o      == out.value
            top    == IF input.topFinishIn = Undefined THEN Whole(0)
                      ELSE input.topFinishIn
            bottom == IF input.bottomFinishIn = Undefined THEN Whole(0)
                      ELSE input.bottomFinishIn
        IN  /\ ~input.finishMode =>
                  /\ o.firstRiserIn = o.exactRiserIn
                  /\ o.lastRiserIn = o.exactRiserIn
                  /\ \A t \in FinishOffsets, b \in FinishOffsets :
                        calcStairs(WithOffsets(input, t, b)) = out
            /\ input.finishMode =>
                  /\ o.firstRiserIn = Add(o.exactRiserIn, bottom)
                  /\ o.lastRiserIn = Sub(o.exactRiserIn, top)
                  /\ \A t \in FinishOffsets, b \in FinishOffsets :
                        LET other == calcStairs(WithOffsets(input, t, b))
                        IN  /\ other.kind = "return"
                            /\ WithoutFinish(other.value) = WithoutFinish(o)

\* A layout solved with finishMode off for an input that gives both finish
\* offsets.
C28_Witness ==
    /\ out # None
    /\ out.kind = "return"
    /\ ~input.finishMode
    /\ input.topFinishIn = Num(1, 2)
    /\ input.bottomFinishIn = Num(1, 2)
    /\ input.totalRiseIn = Num(219, 2)
    /\ out.value.firstRiserIn = out.value.lastRiserIn

\* C27: a click in the floor step sets floorY to the click's vertical
\* fraction, the last click winning, and leaves the reference points as they
\* are; a click in the reference step appends exactly one point labelled
\* "Point N", N the new number of points, and leaves floorY and the earlier
\* points as they are; a click in the done step changes neither.
C27_ClickFrame ==
    [][HandleCanvasClick =>
        /\ currentStep = "floor" =>
              /\ \E e \in MouseEvents :
                    floorY' = Div(Whole(e.clientY - CanvasRect.top),
                                  Whole(CanvasRect.height))
              /\ floorY' = clickLog'[Len(clickLog')].y
              /\ points' = points
        /\ currentStep = "reference" =>
              /\ Len(points') = Len(points) + 1
              /\ SubSeq(points', 1, Len(points)) = points
              /\ points'[Len(points')].label
                    = <<"P", "o", "i", "n", "t", " ">> \o NatString(Len(points'))
              /\ \E e \in MouseEvents :
                    /\ points'[Len(points')].x
                          = Div(Whole(e.clientX - CanvasRect.left),
                                Whole(CanvasRect.width))
                    /\ points'[Len(points')].y
                          = Div(Whole(e.clientY - CanvasRect.top),
                                Whole(CanvasRect.height))
              /\ floorY' = floorY
        /\ currentStep = "done" =>
              /\ floorY' = floorY
              /\ points' = points]_vars

\* The floor clicked twice at different heights, the second kept, then two
\* reference points marked and numbered, and the calibrator done.
C27_Witness ==
    /\ showCalibration
    /\ currentStep = "done"
    /\ Len(ClicksIn("floor")) = 2
    /\ ClicksIn("floor")[1].y = Num(4, 5)
    /\ floorY = Num(1, 2)
    /\ Len(points) = 2
    /\ points[1].label = <<"P", "o", "i", "n", "t", " ", "1">>
    /\ points[2].label = <<"P", "o", "i", "n", "t", " ", "2">>

\* C29: while the calibrator is up its step only moves forward, from floor
\* to reference and from reference to done, and is never any other step;
\* COMPLETE is taken only in the done step, and the data it emits carries at
\* least 2 reference points and a defined vanishingPointX.
C29_StepsForward ==
    [][/\ currentStep' \in {"floor", "reference", "done"}
       /\ (showCalibration /\ showCalibration' /\ currentStep' # currentStep)
            => <<currentStep, currentStep'>>
                 \in {<<"floor", "reference">>, <<"reference", "done">>}
       /\ (session' # session /\ session'.kind = "completed")
            => /\ currentStep = "done"
               /\ session'.from = "done"
               /\ Len(session'.emitted.points) >= 2
               /\ session'.emitted.vanishingPointX # Undefined
               /\ session'.emitted.vanishingPointX.d # 0]_vars

\* Completed from the done step after three reference points.
C29_Witness ==
    /\ session # None
    /\ session.kind = "completed"
    /\ session.from = "done"
    /\ Len(session.emitted.points) = 3
    /\ session.emitted.vanishingPointX # Undefined

\* C15: the data emitted by COMPLETE has vanishingPointX = the mean of the x
\* of all reference points clicked, vanishingPointY = 0.4 and floorY = the y
\* of the last floor click, 0.9 when the floor was not clicked.
C15_EmittedData ==
    (session # None /\ session.emitted # Null) =>
        LET refs   == ClicksIn("reference")
            floors == ClicksIn("floor")
            data   == session.emitted
        IN  /\ Len(data.points) = Len(refs)
            /\ data.vanishingPointX = Div(SumX(refs), Whole(Len(refs)))
            /\ data.vanishingPointY = Num(2, 5)
            /\ data.floorY = IF floors = <<>> THEN Num(9, 10)
                             ELSE floors[Len(floors)].y

\* Completed after two floor clicks and two different reference points.
C15_Witness ==
    /\ session # None
    /\ session.emitted # Null
    /\ Len(ClicksIn("floor")) = 2
    /\ ClicksIn("floor")[1].y # ClicksIn("floor")[2].y
    /\ Len(ClicksIn("reference")) = 2
    /\ session.emitted.vanishingPointX = Num(1, 2)

\* C16: SKIP can be taken in every step; after a skip the session has
\* produced no calibration data, and the scene built next has the default
\* camera.
C16_SkipFallsBackToDefault ==
    /\ showCalibration => ENABLED Skip
    /\ (session # None /\ session.kind = "skipped") => session.emitted = Null
    /\ (builtAfter = "skipped" /\ scene # Null)
            => scene.camera = DefaultCamera(StairDimensions)

\* C16 as it holds: SKIP can be taken in every step; after a skip the session
\* has produced no calibration data, and the scene built next has the default
\* camera when no earlier session of the view was completed, the camera of
\* the data of the last completed session otherwise.
C16_SkipKeepsEarlierCalibration ==
    /\ showCalibration => ENABLED Skip
    /\ (session # None /\ session.kind = "skipped") => session.emitted = Null
    /\ (builtAfter = "skipped" /\ scene # Null)
            => scene.camera =
                   IF calibrationData = Null THEN DefaultCamera(StairDimensions)
                   ELSE CalibratedCamera(StairDimensions, calibrationData)

\* A session was skipped in its last step after an earlier one was
\* completed, and the scene has been built since.
C16_Witness ==
    /\ session # None
    /\ session.kind = "skipped"
    /\ session.from = "done"
    /\ builtAfter = "skipped"
    /\ calibrationData # Null
    /\ scene # Null


\* C17: once dispose has been called, whatever animate calls and frame ticks
\* came before it, no callback of the scene is left to run and none runs,
\* and the resize listener is removed.
C17_NoCallbackAfterDispose ==
    disposed =>
        /\ scheduled = {}
        /\ ~ranAfterDispose
        /\ ~resizeListening

\* C17 for a scene whose animate was called once at most: the loop is
\* cancelled.
C17_SingleLoopCancelled ==
    (disposed /\ animateCalls <= 1) =>
        /\ scheduled = {}
        /\ ~ranAfterDispose
        /\ ~resizeListening

\* C17, the listener: it is removed whatever came before.
C17_ListenerRemoved == disposed => ~resizeListening

\* C18: when the photo does not decode, the view has built the scene all the
\* same, with no background image, and shows the load error.
C18_SceneWithoutBackground ==
    (~isLoading /\ backgroundImage # Null /\ ~backgroundImage.decodes) =>
        /\ scene # Null
        /\ scene.background = "color"
        /\ error # Null

\* C18, what the view does show: the error, and no scene.
C18_ErrorAndNoScene ==
    (~isLoading /\ backgroundImage # Null /\ ~backgroundImage.decodes) =>
        /\ scene = Null
        /\ error = [message |-> "Failed to load background image"]


\* The canvas holds what the last draw put on it before it threw: the marks
\* of the steps done, over white, or what was there before when no step was
\* done.
KeptPartialDrawing ==
    IF lastDraw.done = 0 THEN raster = lastDraw.before
    ELSE /\ Len(raster) = lastDraw.done - 1
         /\ \A i \in 1..Len(raster) :
               raster[i] = [view |-> lastDraw.view,
                            mark |-> DrawSteps(lastDraw.view)[i + 1]]

\* C19: when a draw routine throws, the effect catches it (the error is
\* logged and the view lives on), the view shows an error, and the canvas
\* keeps what was drawn before the failure.
C19_VisibleErrorState ==
    lastDraw.kind = "threw" =>
        /\ consoleErrors # <<>>
        /\ Canvas2DViewShows.errorMessage # Null
        /\ KeptPartialDrawing

\* C19 without the error shown: the failure is caught and logged, and the
\* canvas keeps what was drawn.
C19_CaughtAndKept ==
    lastDraw.kind = "threw" =>
        /\ consoleErrors # <<>>
        /\ KeptPartialDrawing


ImagesOf(jobId) == {r \in store : r.jobId = jobId}

AllSavesCompleted == \A i \in 1..Len(calls) : ~InFlight(calls[i])

SeqRange(q) == {q[i] : i \in 1..Len(q)}

\* A save that found the job at the cap deleted as many of the images it
\* found as brings the job under the cap, none of them newer than one it
\* kept.
EvictedOldestFirst(call) ==
    LET found   == SeqRange(call.existing)
        evicted == SeqRange(call.deleted)
    IN  Len(call.existing) >= MAX_IMAGES_PER_JOB =>
            /\ evicted \subseteq found
            /\ Cardinality(evicted) = Len(call.existing) - MAX_IMAGES_PER_JOB + 1
            /\ \A d \in evicted : \A k \in found \ evicted :
                  d.uploadedAt < k.uploadedAt

\* C20: once the saveImage calls made have completed, no job has more than
\* 10 images in the store, and a save that found its job at the cap has
\* evicted the oldest images and kept the newer ones.
C20_CapPerJob ==
    AllSavesCompleted =>
        /\ \A jobId \in JobIds : Cardinality(ImagesOf(jobId)) <= MAX_IMAGES_PER_JOB
        /\ \A i \in 1..Len(calls) :
              calls[i].pc = "done" => EvictedOldestFirst(calls[i])

\* C20 for calls made one after the other, none begun before the last has
\* completed.
C20_CapOfSequentialSaves ==
    (AllSavesCompleted /\ ~overlapped) =>
        /\ \A jobId \in JobIds : Cardinality(ImagesOf(jobId)) <= MAX_IMAGES_PER_JOB
        /\ \A i \in 1..Len(calls) :
              calls[i].pc = "done" => EvictedOldestFirst(calls[i])

\* C20, the eviction alone: oldest first, in every interleaving.
C20_OldestFirst ==
    \A i \in 1..Len(calls) : calls[i].pc = "done" => EvictedOldestFirst(calls[i])
\* The scenes created and not disposed of.
Undisposed == {i \in 1..Len(scenes) : ~scenes[i].disposed}

\* C21: in every interleaving of dependency changes, unmount and image load
\* completions, at most one scene that was not disposed of exists at any
\* time, and once the view is unmounted every scene created has been
\* disposed of and no render loop runs.
C21_OneSceneAndNoneAfterUnmount ==
    /\ Cardinality(Undisposed) <= 1
    /\ phase = "unmounted" =>
          \A i \in 1..Len(scenes) : scenes[i].disposed /\ ~scenes[i].animating

\* C21 for the scene in the ref: it is not disposed of; and a scene's loop
\* runs until the scene is disposed of.
C21_RefHoldsLiveScene ==
    /\ sceneRef # 0 => ~scenes[sceneRef].disposed
    /\ \A i \in 1..Len(scenes) : scenes[i].animating <=> ~scenes[i].disposed

\* The finish of the scene in the ref is the wood type selected.
LiveFinishIsSelected ==
    sceneRef # 0 =>
        scenes[sceneRef].controls.woodMaterial.color = WOOD_COLORS[woodType]

\* C22: whenever the view holds a live scene, the finish of its stringers
\* and risers is the wood type selected, also after a rebuild, and the
\* treads' finish never changes.
C22_FinishIsSelectedWood ==
    /\ LiveFinishIsSelected
    /\ \A i \in 1..Len(scenes) :
          scenes[i].controls.treadMaterial.color = WOOD_COLORS.oak

\* C22, the treads: their finish never changes.
C22_TreadsKeepFinish ==
    \A i \in 1..Len(scenes) :
        scenes[i].controls.treadMaterial.color = WOOD_COLORS.oak

\* C22, the selection: the scene in the ref has the wood type selected when
\* the wood type's effect has just run.
C22_UpdateSetsSelected == [][SetWoodType => LiveFinishIsSelected']_vars

\* The x and the y of the points of a path, and the span of a set of numbers.
Xs(path) == {path[i].x : i \in 1..Len(path)}

Ys(path) == {path[i].y : i \in 1..Len(path)}

Span(S) ==
    LET lo == CHOOSE a \in S : \A b \in S : Le(a, b)
        hi == CHOOSE a \in S : \A b \in S : Le(b, a)
    IN  Sub(hi, lo)

\* The horizontal segments of a path: two successive points of one height.
HorizontalSegments(path) ==
    {[x1 |-> path[i].x, x2 |-> path[i + 1].x, y |-> path[i].y] :
        i \in {k \in 1..(Len(path) - 1) : path[k].y = path[k + 1].y}}

\* A slab is drawn over the run interval of the segment, and the segment is
\* at its height (between its two faces).
AtSlabHeight(seg, slabs) ==
    \E k \in 1..Len(slabs) :
        /\ slabs[k].x = seg.x1
        /\ Add(slabs[k].x, slabs[k].w) = seg.x2
        /\ Le(slabs[k].y, seg.y)
        /\ Le(seg.y, Add(slabs[k].y, slabs[k].h))

\* C23: the stepped profile drawn by drawSideElevation starts at the origin
\* and spans totalRunIn horizontally and numRisers * exactRiserIn vertically,
\* the extents of the total-run and total-rise dimension lines, and each of
\* its horizontal segments lies at the height of the tread slab drawn over
\* the same run interval.
C23_ProfileExtents ==
    drawing.kind = "return" =>
        LET d == drawing.value
        IN  /\ d.profile[1] = Point(MARGIN, Sub(CanvasHeight, MARGIN))
            /\ Span(Xs(d.profile)) = Mul(elevationData.totalRunIn, SCALE)
            /\ Span(Xs(d.profile)) = Sub(d.totalRun.x2, d.totalRun.x1)
            /\ Span(Ys(d.profile))
                  = Mul(Mul(elevationData.numRisers, elevationData.exactRiserIn), SCALE)
            /\ Span(Ys(d.profile)) = Sub(d.totalRise.y1, d.totalRise.y2)
            /\ \A seg \in HorizontalSegments(d.profile) :
                  AtSlabHeight(seg, d.treads)

\* C23 as the routine draws: the profile starts at the origin, spans one
\* tread run more than totalRunIn and one riser less than the total rise,
\* and each horizontal segment lies one riser below the slab over its run
\* interval (the last has no slab).
C23_ProfileOneStepOff ==
    drawing.kind = "return" =>
        LET d == drawing.value
            run  == Mul(elevationData.treadRunIn, SCALE)
            rise == Mul(elevationData.exactRiserIn, SCALE)
        IN  /\ d.profile[1] = Point(MARGIN, Sub(CanvasHeight, MARGIN))
            /\ Span(Xs(d.profile)) = Add(Mul(elevationData.totalRunIn, SCALE), run)
            /\ Span(Ys(d.profile)) = Sub(Sub(d.totalRise.y1, d.totalRise.y2), rise)
            /\ \A seg \in HorizontalSegments(d.profile) :
                  \/ AtSlabHeight([seg EXCEPT !.y = Sub(@, rise)], d.treads)
                  \/ seg.x2 = Add(Add(MARGIN, Mul(elevationData.totalRunIn, SCALE)), run)

\* A number that is finite and whole.
FiniteInteger(x) == x.d = 1

\* C24: for every combination of texts that parseInches accepts and
\* calcStairs does not reject, numRisers, numTreads and numStringers are
\* finite integers, and the loops of buildStaircaseGeometry and of the 2D
\* draw routine end; a target riser and a stringer spacing of 0 included.
C24_FiniteCounts ==
    /\ (result # None /\ result.ok) =>
          /\ FiniteInteger(result.out.numRisers)
          /\ FiniteInteger(result.out.numTreads)
          /\ FiniteInteger(result.mat.numStringers)
    /\ rendering # None => rendering.kind = "return"

\* C24 for a target riser and a stringer spacing that are not 0: the counts
\* are finite integers and the loops end.
C24_FiniteForNonZero ==
    LET nonZero ==
            /\ Trim(fields.targetRiser) # <<>>
                  => parseInches(fields.targetRiser) # Returned(Whole(0))
            /\ result.stringerOcin # Whole(0)
    IN  (result # None /\ result.ok /\ nonZero) =>
            /\ FiniteInteger(result.out.numRisers)
            /\ FiniteInteger(result.out.numTreads)
            /\ FiniteInteger(result.mat.numStringers)
            /\ rendering # None => rendering.kind = "return"

\* v is an exact multiple of 1/16 inch.
Sixteenth(v) == IsInteger(Mul(v, Whole(16)))

\* C25: for every v that is an exact multiple of 1/16 inch, negative values
\* included, parseInches(toFeetInches(v)) = v.
C25_RoundTrip ==
    (parsed # None /\ Sixteenth(value.inches)) => parsed = Returned(value.inches)

\* C25 for the values that are not negative: the round trip gives v back.
C25_RoundTripOfNonNegative ==
    (parsed # None /\ Sixteenth(value.inches) /\ Ge(value.inches, Whole(0)))
        => parsed = Returned(value.inches)

\* C25 for the negative values: parseInches returns |v| when v is under a
\* foot, and 24 feet less than |v| (-12 ft + inches) from a foot on.
C25_SignLost ==
    (parsed # None /\ Sixteenth(value.inches) /\ Lt(value.inches, Whole(0))) =>
        LET abs == MathAbs(value.inches)
            ft  == MathFloor(Div(abs, Whole(12)))
        IN  parsed = Returned(Sub(abs, Mul(ft, Whole(24))))

\* The inches part of a rendering of toFeetInches: what follows the feet
\* marker and its space, or the sign, without the inch mark at the end.
InchesPart(s) ==
    LET marks == {i \in 1..Len(s) : s[i] = "'"}
        from  == IF marks # {} THEN (CHOOSE i \in marks : TRUE) + 2
                 ELSE IF s[1] = "-" THEN 2 ELSE 1
    IN  SubSeq(s, from, Len(s) - 1)

\* C26: for every v the inches part of toFeetInches(v) denotes a length
\* strictly less than 12 inches, a remainder that rounds up to 12 at 1/16
\* precision being carried into the feet.
C26_InchesUnderTwelve ==
    rendered # None =>
        LET r == ReadMixed(InchesPart(rendered.value))
        IN  r.ok /\ Lt(r.value, Whole(12))

\* C26 as toFeetInches writes: the inches part is 12 at most, and is 12
\* exactly for the remainders within 1/32 of a foot.
C26_InchesAtMostTwelve ==
    rendered # None =>
        LET r    == ReadMixed(InchesPart(rendered.value))
            abs  == MathAbs(value.inches)
            inch == Sub(abs, Mul(MathFloor(Div(abs, Whole(12))), Whole(12)))
        IN  /\ r.ok
            /\ Le(r.value, Whole(12))
            /\ r.value = Whole(12) <=> Ge(inch, Num(383, 32))

\* The picture the page shows behind the stair, Null when there is none.
PictureShown(file) == IF file = Null THEN Null ELSE file.picture

\* The picture stored for a job, Null when it has no retrievable image.
PictureStored(j) ==
    IF j.imageId = Undefined THEN Null
    ELSE PictureShown(getImage(imageStore, j.imageId))

\* C30: when loadJob(j) completes and no other load is in flight, every
\* input field holds the string saved in j and the photo shown is the image
\* stored for j, or none when j has no retrievable image.
C30_LoadedJobShown ==
    [][(Len(completed') = Len(completed) + 1 /\ loadJobs' = <<>>) =>
          LET j == JobOf(completed'[Len(completed')])
          IN  /\ fields' = LoadedFields(j)
              /\ PictureShown(uploadedImage') = PictureStored(j)]_vars

\* C30 as loadJob runs: a job without an image id is loaded in one step,
\* which sets the fields and clears the photo; for a job with an image id
\* the completing step leaves the fields as they are and shows either the
\* job's picture or whatever was shown before.
C30_LoadSetsWhatItReaches ==
    [][Len(completed') = Len(completed) + 1 =>
          LET j == JobOf(completed'[Len(completed')])
          IN  /\ activeRenderView' = LoadedView(j)
              /\ j.imageId = Undefined =>
                    /\ fields' = LoadedFields(j)
                    /\ uploadedImage' = Null
              /\ j.imageId # Undefined =>
                    /\ fields' = fields
                    /\ \/ uploadedImage' = uploadedImage
                       \/ PictureShown(uploadedImage') = PictureStored(j)]_vars

====
